---- MODULE Spec2Model ----
(***************************************************************************)
(* Model of the crawl-and-score pipeline of the website analyzer:          *)
(*   - WebCrawler.crawl_website, the chain of fetch strategies             *)
(*     (backend/core/crawler.py);                                          *)
(*   - CrawlabilityAnalyzer.normalized_crawl / analyze, the sampler with   *)
(*     sorted-median selection (backend/analyzers/crawlability_analyzer.py)*)
(*   - EnvironmentNormalizer.normalized_crawl and                          *)
(*     NormalizedCrawlabilityAnalyzer.analyze, the sampler with the        *)
(*     per-feature median overlay (backend/core/environment_normalizer.py, *)
(*     backend/analyzers/normalized_crawlability_analyzer.py);             *)
(*   - the scoring functions of both analyzers, their recommendations and  *)
(*     labels, and the load-time smoothing of CrawlabilityAnalyzer;        *)
(*   - AIAnalyzer.analyze_crawlability, the rule-based analysis and its    *)
(*     optional enrichment (backend/core/ai_analyzer.py);                  *)
(*   - URLValidator.batch_validate_urls (backend/core/validation.py);      *)
(*   - FeatureExtractor.extract_features                                   *)
(*     (backend/core/feature_extractor.py), and calls of the scoring and   *)
(*     normalizing functions on stored feature sets and attempts;          *)
(*   - the sliding-window RateLimiter (backend/core/rate_limiter.py) and   *)
(*     the token-bucket RateLimiter (core/rate_limiter.py).                *)
(* Times are in milliseconds, sizes in bytes; the rate limiters count      *)
(* seconds.                                                                *)
(***************************************************************************)
EXTENDS Integers, Sequences, FiniteSets, TLC

VARIABLES
    cUrl,       \* crawl_website: scheme of the url argument ("https" / "http")
    cPc,        \* crawl_website: the strategy about to be tried, or "idle" / "done"
    cUa,        \* crawl_website: index i of the user-agent loop
    cLog,       \* crawl_website: the network requests issued so far, in order
    cResult,    \* crawl_website: the returned dict, NoResult until it returns
    analyzer,   \* which sampler runs: "crawlability" or "normalized"
    sUrl,       \* sampler: scheme of the url argument
    sPc,        \* sampler task: "idle", "fetching", "sleeping", "done", "cancelled"
    sAttempt,   \* sampler: loop variable `attempt` (0-based)
    attempts,   \* sampler: the list `attempts` of successful attempt dicts
    history,    \* sampler: outcome of every attempt that ended, in order
    sLog,       \* sampler: events of the task ("start", "end", "sleep", "cancelled")
    sReqs,      \* sampler: the network requests issued so far, in order
    inFlight,   \* sampler: number of fetch attempts started and not yet ended
    cancelReq,  \* sampler: task.cancel() was called and not yet delivered
    crawlOut,   \* sampler: what normalized_crawl returned
    analysis,   \* sampler: what analyze returned (or that it raised)
    fsIn,       \* scoring: the inputs the features are extracted from
    fsOut,      \* scoring: the extracted features and the scores
    lbScore,    \* labelling: the overall score to be labelled
    lbLabels,   \* labelling: the label each labeller gave, "" before it ran
    smRaw,      \* smoothing: crawl_result['load_time'] of two crawl results, in ms
    smOut,      \* smoothing: their smoothed_load_time, -1 before _apply_normalization
    aiKey,      \* AIAnalyzer: self.openai_api_key ("" when unset)
    aiModel,    \* AIAnalyzer: self.model ("" for None)
    aiLoaded,   \* AIAnalyzer: self.is_loaded
    aiPc,       \* analyze_crawlability: "idle", "enriching", "done"
    aiFeatures, \* analyze_crawlability: the features argument
    aiRule,     \* analyze_crawlability: rule_based_result
    aiReply,    \* analyze_crawlability: what the enrichment call came to
    aiOut,      \* analyze_crawlability: the returned result
    bUrls,      \* batch_validate_urls: the list urls
    bPc,        \* batch_validate_urls: "idle", "gathering", "done"
    bTasks,     \* batch: state of the task of each URL: "waiting", "checking", "done"
    bResults,   \* batch: what gather holds for each task
    bSem,       \* batch: the value of the semaphore
    bOrder,     \* batch: the indices of the tasks in the order they completed
    bOut,       \* batch_validate_urls: the returned list
    feIn,       \* extract_features: the crawl_result argument
    feDone,     \* extract_features: whether it has returned
    feOut,      \* extract_features: the returned features
    pfFirst,    \* scoring calls: the feature dicts as they were made
    pfStore,    \* scoring calls: the feature dicts as they are now
    pfLog,      \* scoring calls: the dict scored and the score returned, per call
    nmIn,       \* normalizing: which normalizer, and the attempts as they were collected
    nmDone,     \* normalizing: whether the call has returned
    nmAfter,    \* normalizing: the attempt dicts as the call left them
    nmOut,      \* normalizing: the returned dict
    nmSame,     \* normalizing: index of the attempt the returned dict is, 0 for a new dict
    rlNow,      \* sliding window: time.time()
    rlRequests, \* sliding window: self.requests, client key -> timestamps
    rlCalls,    \* sliding window: the allow_request calls so far and their answers
    tbNow,      \* token bucket: time.time()
    tbSteps,    \* token bucket: the clock steps so far
    tbMinute,   \* token bucket: self.minute_buckets, client id -> TokenBucket
    tbHour,     \* token bucket: self.hour_buckets
    tbBurst,    \* token bucket: self.burst_buckets
    tbHistory,  \* token bucket: self.request_history, client id -> timestamps
    tbLastCleanup,\* token bucket: self.last_cleanup
    tbCalls,    \* token bucket: the number of is_allowed calls so far
    tbLast,     \* token bucket: the latest is_allowed call and its answers
    tbSeen      \* token bucket: the outcomes of the is_allowed calls so far

crawlVars == <<cUrl, cPc, cUa, cLog, cResult>>
sampleVars == <<analyzer, sUrl, sPc, sAttempt, attempts, history, sLog, sReqs,
                inFlight, cancelReq, crawlOut, analysis>>
scoreVars == <<fsIn, fsOut>>
labelVars == <<lbScore, lbLabels>>
\* the variables of the components other than crawler, samplers and scoring
smoothVars == <<smRaw, smOut>>
aiVars == <<aiKey, aiModel, aiLoaded, aiPc, aiFeatures, aiRule, aiReply, aiOut>>
batchVars == <<bUrls, bPc, bTasks, bResults, bSem, bOrder, bOut>>
extractVars == <<feIn, feDone, feOut>>
purityVars == <<pfFirst, pfStore, pfLog>>
frameVars == <<nmIn, nmDone, nmAfter, nmOut, nmSame>>
limitVars == <<rlNow, rlRequests, rlCalls>>
bucketVars == <<tbNow, tbSteps, tbMinute, tbHour, tbBurst, tbHistory, tbLastCleanup, tbCalls, tbLast, tbSeen>>
otherVars == <<labelVars, smoothVars, aiVars, batchVars, extractVars, purityVars, frameVars, limitVars, bucketVars>>
vars == <<cUrl, cPc, cUa, cLog, cResult, analyzer, sUrl, sPc, sAttempt, attempts,
          history, sLog, sReqs, inFlight, cancelReq, crawlOut, analysis, fsIn, fsOut,
          lbScore, lbLabels, smRaw, smOut,
          aiKey, aiModel, aiLoaded, aiPc, aiFeatures, aiRule, aiReply, aiOut,
          bUrls, bPc, bTasks, bResults, bSem, bOrder, bOut,
          feIn, feDone, feOut,
          pfFirst, pfStore, pfLog,
          nmIn, nmDone, nmAfter, nmOut, nmSame,
          rlNow, rlRequests, rlCalls,
          tbNow, tbSteps, tbMinute, tbHour, tbBurst, tbHistory, tbLastCleanup, tbCalls, tbLast, tbSeen>>

NoResult == [success |-> FALSE, strategy |-> "none", error |-> "", html |-> "", status_code |-> 0]

Schemes == {"https", "http"}

Min(a, b) == IF a <= b THEN a ELSE b

Abs(a) == IF a < 0 THEN -a ELSE a

(***************************************************************************)
(* WebCrawler                                                              *)
(***************************************************************************)

\* len(self.user_agents)
NumUserAgents == 5

\* What the network and the body do to one request: status 0 stands for a
\* transport error or timeout (no response), decodes says whether
\* response.text() and BeautifulSoup went through on the body.
GetOutcomes ==
    { [status |-> 200, decodes |-> TRUE],
      [status |-> 200, decodes |-> FALSE],
      [status |-> 403, decodes |-> TRUE],
      [status |-> 0,   decodes |-> TRUE] }

HeadOutcomes ==
    { [status |-> 200, decodes |-> TRUE],
      [status |-> 403, decodes |-> TRUE],
      [status |-> 0,   decodes |-> TRUE] }

HttpError(status) == IF status = 403 THEN "HTTP 403" ELSE "HTTP error"

\* _parse_content: the dict of a parsed page, or the failure dict of its
\* except branch
ParseContent(o) ==
    IF o.decodes
    THEN [success |-> TRUE, strategy |-> "none", error |-> "", html |-> "content",
          status_code |-> o.status]
    ELSE [success |-> FALSE, strategy |-> "none", error |-> "Content parsing failed",
          html |-> "", status_code |-> 0]

\* The body shared by _try_standard_crawl, _try_with_user_agent and
\* _try_minimal_request: session.get, then status == 200 -> text() and
\* _parse_content, else the failure dict; any exception -> failure dict.
TryGet(o) ==
    IF o.status = 0
    THEN [success |-> FALSE, strategy |-> "none", error |-> "exception", html |-> "",
          status_code |-> 0]
    ELSE IF o.status = 200
         THEN ParseContent(o)
         ELSE [success |-> FALSE, strategy |-> "none", error |-> HttpError(o.status),
               html |-> "", status_code |-> o.status]

TryStandardCrawl(o) == TryGet(o)

TryWithUserAgent(o) == [TryGet(o) EXCEPT !.status_code = IF o.status = 200 /\ o.decodes THEN 200 ELSE 0]

TryMinimalRequest(o) == [TryGet(o) EXCEPT !.status_code = IF o.status = 200 /\ o.decodes THEN 200 ELSE 0]

\* _try_head_request: 200 -> success with an empty body
TryHeadRequest(o) ==
    IF o.status = 200
    THEN [success |-> TRUE, strategy |-> "none", error |-> "", html |-> "",
          status_code |-> 200]
    ELSE [success |-> FALSE, strategy |-> "none",
          error |-> IF o.status = 0 THEN "exception" ELSE HttpError(o.status),
          html |-> "", status_code |-> 0]

\* The request each strategy puts on the wire
Request(method, scheme, headers, agent, o) ==
    [method |-> method, scheme |-> scheme, headers |-> headers, agent |-> agent,
     status |-> o.status, decodes |-> o.decodes]

\* The dict returned when every strategy failed
AllFailedResult ==
    [success |-> FALSE, strategy |-> "failed",
     error |-> "Website is not accessible or blocks crawlers", html |-> "",
     status_code |-> 0]

\* self.timeout = aiohttp.ClientTimeout(total=30, ...): the longest one
\* request lasts, in ms
RequestTimeout == 30000

\* The time a request that is answered takes, in ms
ResponseTime == 1000

\* How long a request of the log lasted: one that got no response ran into
\* the timeout
Duration(req) == IF req.status = 0 THEN RequestTimeout ELSE ResponseTime

\* time.time() - start_time once the requests of log are over
RECURSIVE Elapsed(_)
Elapsed(log) == IF log = <<>> THEN 0 ELSE Duration(Head(log)) + Elapsed(Tail(log))

\* NextStrategy with the HEAD probe ahead of the minimal request
NextStrategySwapped(pc, ua, url) ==
    CASE pc = "standard" -> IF url = "https" THEN <<"http_fallback", 0>> ELSE <<"user_agent", 0>>
      [] pc = "http_fallback" -> <<"user_agent", 0>>
      [] pc = "user_agent" -> IF ua + 1 < NumUserAgents THEN <<"user_agent", ua + 1>>
                                                       ELSE <<"head_only", 0>>
      [] pc = "head_only" -> <<"minimal", 0>>
      [] pc = "minimal" -> <<"done", 0>>
      [] OTHER -> <<"done", 0>>

\* NextStrategy with a user-agent loop that steps by two
NextStrategySkipping(pc, ua, url) ==
    CASE pc = "standard" -> IF url = "https" THEN <<"http_fallback", 0>> ELSE <<"user_agent", 0>>
      [] pc = "http_fallback" -> <<"user_agent", 0>>
      [] pc = "user_agent" -> IF ua + 2 < NumUserAgents THEN <<"user_agent", ua + 2>>
                                                       ELSE <<"minimal", 0>>
      [] pc = "minimal" -> <<"head_only", 0>>
      [] OTHER -> <<"done", 0>>

\* Control flow of crawl_website after the strategy at pc (user-agent index
\* ua) has failed: the next strategy and user-agent index.
NextStrategy(pc, ua, url) ==
    CASE pc = "standard" -> IF url = "https" THEN <<"http_fallback", 0>> ELSE <<"user_agent", 0>>
      [] pc = "http_fallback" -> <<"user_agent", 0>>
      [] pc = "user_agent" -> IF ua + 1 < NumUserAgents THEN <<"user_agent", ua + 1>>
                                                       ELSE <<"minimal", 0>>
      [] pc = "minimal" -> <<"head_only", 0>>
      [] OTHER -> <<"done", 0>>

\* The value crawl_website stores in result['strategy'] on success
StrategyName(pc, ua) ==
    IF pc = "user_agent"
    THEN CASE ua = 0 -> "user_agent_0" [] ua = 1 -> "user_agent_1" [] ua = 2 -> "user_agent_2"
           [] ua = 3 -> "user_agent_3" [] OTHER -> "user_agent_4"
    ELSE pc

\* One strategy of crawl_website: the request goes out, and the result either
\* returns from crawl_website or control moves to the next strategy.
CrawlStep(req, res) ==
    /\ cLog' = Append(cLog, req)
    /\ IF res.success
       THEN /\ cResult' = [res EXCEPT !.strategy = StrategyName(cPc, cUa)]
            /\ cPc' = "done"
            /\ cUa' = cUa
       ELSE /\ cPc' = NextStrategy(cPc, cUa, cUrl)[1]
            /\ cUa' = NextStrategy(cPc, cUa, cUrl)[2]
            /\ cResult' = IF NextStrategy(cPc, cUa, cUrl)[1] = "done"
                          THEN AllFailedResult ELSE cResult
    /\ UNCHANGED cUrl
    /\ UNCHANGED sampleVars
    /\ UNCHANGED scoreVars
    /\ UNCHANGED otherVars

\* crawl_website(url) is called
CrawlWebsite ==
    /\ cPc = "idle"
    /\ cPc' = "standard"
    /\ UNCHANGED <<cUrl, cUa, cLog, cResult>>
    /\ UNCHANGED sampleVars
    /\ UNCHANGED scoreVars
    /\ UNCHANGED otherVars

StandardStrategy ==
    /\ cPc = "standard"
    /\ \E o \in GetOutcomes :
          CrawlStep(Request("GET", cUrl, "full", 0, o), TryStandardCrawl(o))

HttpFallbackStrategy ==
    /\ cPc = "http_fallback"
    /\ \E o \in GetOutcomes :
          CrawlStep(Request("GET", "http", "full", 0, o), TryStandardCrawl(o))

UserAgentStrategy ==
    /\ cPc = "user_agent"
    /\ \E o \in GetOutcomes :
          CrawlStep(Request("GET", cUrl, "user_agent", cUa, o), TryWithUserAgent(o))

MinimalStrategy ==
    /\ cPc = "minimal"
    /\ \E o \in GetOutcomes :
          CrawlStep(Request("GET", cUrl, "none", -1, o), TryMinimalRequest(o))

HeadStrategy ==
    /\ cPc = "head_only"
    /\ \E o \in HeadOutcomes :
          CrawlStep(Request("HEAD", cUrl, "none", -1, o), TryHeadRequest(o))

(***************************************************************************)
(* Pages                                                                   *)
(*                                                                         *)
(* A page is what the parsers find in a response body: lengths of the      *)
(* stripped title and description texts, token counts, element counts.     *)
(* words_all counts the tokens of soup.get_text(), words_visible the       *)
(* tokens longer than one character left after script, style and noscript  *)
(* are removed.  links counts the anchors by the shape of their href:      *)
(* same_host and other_host are absolute http(s) URLs, relative is a path  *)
(* such as "page.html", malformed is an absolute URL urlparse rejects      *)
(* ("http://[x").                                                          *)
(***************************************************************************)

NoLinks ==
    [no_href |-> 0, empty |-> 0, fragment |-> 0, javascript |-> 0, mailto |-> 0, tel |-> 0,
     same_host |-> 0, other_host |-> 0, root_relative |-> 0, relative |-> 0,
     malformed |-> 0]

GoodPage ==
    [title_len |-> 45, desc_len |-> 140, og_desc_len |-> 0, words_all |-> 640,
     words_visible |-> 600, h1 |-> 1, h2 |-> 3, h3 |-> 2, imgs |-> 4, imgs_alt |-> 4,
     links |-> [NoLinks EXCEPT !.same_host = 3, !.root_relative = 4, !.other_host = 2,
                               !.fragment = 1],
     viewport |-> TRUE, canonical |-> TRUE, robots |-> FALSE, size |-> 40960,
     encoding |-> "gzip"]

PoorPage ==
    [title_len |-> 0, desc_len |-> 0, og_desc_len |-> 0, words_all |-> 60,
     words_visible |-> 40, h1 |-> 2, h2 |-> 0, h3 |-> 0, imgs |-> 2, imgs_alt |-> 1,
     links |-> [NoLinks EXCEPT !.relative = 1, !.mailto = 1],
     viewport |-> FALSE, canonical |-> FALSE, robots |-> FALSE, size |-> 2621440,
     encoding |-> ""]

\* the body a server sends with a 403
BlockPage ==
    [title_len |-> 13, desc_len |-> 0, og_desc_len |-> 0, words_all |-> 12,
     words_visible |-> 10, h1 |-> 1, h2 |-> 0, h3 |-> 0, imgs |-> 0, imgs_alt |-> 0,
     links |-> NoLinks,
     viewport |-> FALSE, canonical |-> FALSE, robots |-> FALSE, size |-> 600,
     encoding |-> ""]

MB == 1048576

(***************************************************************************)
(* EnvironmentNormalizer: feature extraction and its scores.               *)
(* alt_ratio is in thousandths (1000 is the ratio 1.0).                    *)
(***************************************************************************)

EN_CalculateContentScoreUncapped(title_len, desc_len, word_count, h1_count) ==
    (IF 30 <= title_len /\ title_len <= 60 THEN 10 ELSE IF title_len > 0 THEN 5 ELSE 0)
    + (IF 120 <= desc_len /\ desc_len <= 160 THEN 10 ELSE IF desc_len > 0 THEN 5 ELSE 0)
    + (IF word_count >= 300 THEN 10 ELSE IF word_count >= 100 THEN 7
       ELSE IF word_count > 0 THEN 3 ELSE 0)
    + (IF h1_count = 1 THEN 5 ELSE IF h1_count > 1 THEN 2 ELSE 0)

EN_CalculateContentScore(title_len, desc_len, word_count, h1_count) ==
    Min(EN_CalculateContentScoreUncapped(title_len, desc_len, word_count, h1_count), 35)

EN_CalculateTechnicalScore(has_ssl, has_viewport, h1_count, img_count, alt_ratio) ==
    Min( (IF has_ssl THEN 15 ELSE 0)
         + (IF has_viewport THEN 10 ELSE 0)
         + (IF h1_count = 1 THEN 10 ELSE IF h1_count > 0 THEN 5 ELSE 0)
         + (IF alt_ratio >= 800 THEN 5 ELSE IF alt_ratio >= 500 THEN 3
            ELSE IF alt_ratio > 0 THEN 1 ELSE 0),
         40 )

EN_CalculateLoadTimeScore(load_time) ==
    IF load_time <= 1000 THEN 15
    ELSE IF load_time <= 2000 THEN 12
    ELSE IF load_time <= 3000 THEN 8
    ELSE IF load_time <= 5000 THEN 4
    ELSE 0

EN_CalculateContentSizeScore(content_size) ==
    IF 2 * content_size <= MB THEN 10
    ELSE IF content_size <= MB THEN 8
    ELSE IF content_size <= 2 * MB THEN 5
    ELSE IF content_size <= 5 * MB THEN 2
    ELSE 0

\* hrefs that do not start with http://, https://, mailto: or tel:
EN_InternalLinks(l) ==
    l.empty + l.fragment + l.javascript + l.root_relative + l.relative

AnchorCount(l) ==
    l.no_href + l.empty + l.fragment + l.javascript + l.mailto + l.tel
    + l.same_host + l.other_host + l.root_relative + l.relative + l.malformed

EN_ExtractNormalizedFeatures(page, load_time) ==
    LET alt_ratio == IF page.imgs > 0 THEN (page.imgs_alt * 1000) \div page.imgs ELSE 1000
        normalized_load_time == Min(load_time, 5000)
    IN  [title_present |-> page.title_len > 0,
         title_length |-> page.title_len,
         meta_description_present |-> page.desc_len > 0,
         meta_description_length |-> page.desc_len,
         word_count |-> page.words_all,
         h1_count |-> page.h1,
         h2_count |-> page.h2,
         img_count |-> page.imgs,
         link_count |-> AnchorCount(page.links),
         internal_links_count |-> EN_InternalLinks(page.links),
         has_viewport |-> page.viewport,
         has_ssl |-> TRUE,
         alt_ratio |-> alt_ratio,
         security_headers_count |-> 3,
         load_time |-> normalized_load_time,
         content_size |-> page.size,
         content_quality_score |->
             EN_CalculateContentScore(page.title_len, page.desc_len, page.words_all, page.h1),
         technical_quality_score |->
             EN_CalculateTechnicalScore(TRUE, page.viewport, page.h1, page.imgs, alt_ratio),
         load_time_score |-> EN_CalculateLoadTimeScore(normalized_load_time),
         content_size_score |-> EN_CalculateContentSizeScore(page.size)]

\* the list numeric_features of _normalize_results
NumericFeatures ==
    {"load_time", "word_count", "title_length", "meta_description_length", "h1_count",
     "h2_count", "img_count", "link_count", "internal_links_count", "content_size",
     "alt_ratio", "content_quality_score", "technical_quality_score", "load_time_score",
     "content_size_score"}

\* A sequence of integers in non-decreasing order (sorted, as statistics.median sorts)
RECURSIVE InsertSorted(_, _)
InsertSorted(s, x) ==
    IF s = <<>> THEN <<x>>
    ELSE IF x < Head(s) THEN <<x>> \o s
    ELSE <<Head(s)>> \o InsertSorted(Tail(s), x)

RECURSIVE SortInts(_)
SortInts(s) == IF s = <<>> THEN <<>> ELSE InsertSorted(SortInts(Tail(s)), Head(s))

\* Twice statistics.median(values): the middle value, or the mean of the two
\* middle values, of the sorted values.  Twice, because the mean of two
\* integers may end in .5
Median2(values) ==
    LET s == SortInts(values)
        n == Len(s)
    IN  IF n % 2 = 1 THEN 2 * s[(n + 1) \div 2]
        ELSE s[n \div 2] + s[(n \div 2) + 1]

\* The attempts _normalize_results may take as base: min() over the attempts
\* of the distance of the capped load time to the median.  With three
\* attempts the median is one of the values and min() returns the first
\* attempt at distance 0.  With two attempts of different load times both are
\* at the same distance from their mean, and the rounding of the float mean
\* decides which one min() returns.
EN_BaseCandidates(att) ==
    LET n == Len(att)
        med2 == Median2([i \in 1..n |-> att[i].features.load_time])
        dist(i) == Abs(2 * att[i].features.load_time - med2)
        least == {i \in 1..n : \A j \in 1..n : dist(i) <= dist(j)}
        first == CHOOSE i \in least : \A j \in least : i <= j
    IN  IF n = 2 /\ att[1].features.load_time # att[2].features.load_time
        THEN {1, 2}
        ELSE {first}

\* The features of the dict _normalize_results returns, with base the index
\* of the chosen base attempt.  The values of the numeric features are kept
\* in halves (twice the value) in this record, a median may end in .5
EN_NormalizeResults(att, base) ==
    IF Len(att) = 1
    THEN [k \in DOMAIN att[1].features |->
             IF k \in NumericFeatures THEN 2 * att[1].features[k] ELSE att[1].features[k]]
    ELSE [k \in DOMAIN att[base].features |->
             IF k \in NumericFeatures
             THEN Median2([i \in 1..Len(att) |-> att[i].features[k]])
             ELSE att[base].features[k]]

(***************************************************************************)
(* NormalizedCrawlabilityAnalyzer: score, recommendations, result.         *)
(* Its features come from EN_NormalizeResults, numeric features in halves. *)
(***************************************************************************)

\* int(load_time_score * 0.6 + content_size_score * 0.4) on scores given in
\* halves.  The float sum falls just short of the exact value 4 for the
\* scores (6.0, 1.0) and of 8 for (12, 2), and int() truncates it.
NCA_PerformanceScore(lts2, css2) ==
    ((3 * lts2 + 2 * css2) \div 10)
    - (IF <<lts2, css2>> \in {<<12, 2>>, <<24, 4>>} THEN 1 ELSE 0)

\* _calculate_normalized_crawlability_score: the three capped category
\* scores (content and technical in halves) and the returned total
NCA_CalculateNormalizedCrawlabilityScore(f) ==
    LET content2 == Min(f.content_quality_score, 2 * 35)
        technical2 == Min(f.technical_quality_score, 2 * 40)
        performance == Min(NCA_PerformanceScore(f.load_time_score, f.content_size_score), 25)
    IN  [content2 |-> content2, technical2 |-> technical2, performance |-> performance,
         overall |-> Min((content2 + technical2 + 2 * performance) \div 2, 100)]

Rec(category, title, priority) == [category |-> category, title |-> title, priority |-> priority]

PriorityOrder(p) ==
    CASE p = "high" -> 0 [] p = "medium" -> 1 [] p = "low" -> 2 [] OTHER -> 3

\* list.sort(key=priority_order): stable
SortByPriority(recs) ==
    SelectSeq(recs, LAMBDA r : PriorityOrder(r.priority) = 0)
    \o SelectSeq(recs, LAMBDA r : PriorityOrder(r.priority) = 1)
    \o SelectSeq(recs, LAMBDA r : PriorityOrder(r.priority) = 2)
    \o SelectSeq(recs, LAMBDA r : PriorityOrder(r.priority) = 3)

Truncate(s, n) == IF Len(s) <= n THEN s ELSE SubSeq(s, 1, n)

Opt(cond, rec) == IF cond THEN <<rec>> ELSE <<>>

\* The rules of _generate_normalized_recommendations on features in halves:
\* the list `recommendations` before it is sorted
NCA_Rules(f) ==
       Opt(f.word_count < 2 * 300, Rec("Content", "Increase Content Length", "medium"))
    \o (IF ~f.title_present
        THEN <<Rec("SEO", "Add Page Title", "high")>>
        ELSE Opt(f.title_length < 2 * 30 \/ f.title_length > 2 * 60,
                 Rec("SEO", "Optimize Title Length", "medium")))
    \o Opt(~f.meta_description_present, Rec("SEO", "Add Meta Description", "high"))
    \o Opt(~f.has_ssl, Rec("Security", "Enable HTTPS", "high"))
    \o Opt(~f.has_viewport, Rec("Mobile", "Add Viewport Meta Tag", "high"))
    \o (IF f.h1_count = 0
        THEN <<Rec("Content Structure", "Add H1 Heading", "medium")>>
        ELSE Opt(f.h1_count > 2 * 1, Rec("Content Structure", "Use Single H1 Tag", "low")))
    \o Opt(f.load_time > 2 * 3000, Rec("Performance", "Improve Page Load Speed", "medium"))
    \o Opt(f.content_size > 2 * (2 * MB), Rec("Performance", "Optimize Content Size", "medium"))
    \o Opt(f.alt_ratio < 2 * 800, Rec("Accessibility", "Improve Image Alt Text", "medium"))
    \o Opt(f.internal_links_count < 2 * 3, Rec("SEO", "Improve Internal Linking", "low"))

\* _generate_normalized_recommendations returning recommendations[:4]
NCA_TopFourRecommendations(f) == Truncate(SortByPriority(NCA_Rules(f)), 4)

\* _generate_normalized_recommendations: sorted by priority, the first 8
NCA_GenerateNormalizedRecommendations(f) == Truncate(SortByPriority(NCA_Rules(f)), 8)

\* The first word of the text _generate_explanation returns
NCA_GenerateExplanation(score) ==
    IF score >= 90 THEN "Excellent"
    ELSE IF score >= 80 THEN "Good"
    ELSE IF score >= 70 THEN "Fair"
    ELSE IF score >= 60 THEN "Poor"
    ELSE "Critical"

\* analyze() has not returned yet
NoAnalysis == [returned |-> FALSE, raised |-> FALSE, score |-> -1, recommendations |-> <<>>,
               explanation |-> ""]

\* analyze() ended with an exception instead of a result
Raised == [returned |-> FALSE, raised |-> TRUE, score |-> -1, recommendations |-> <<>>,
           explanation |-> ""]

NCA_CreateFailedResult ==
    [returned |-> TRUE, raised |-> FALSE, score |-> 0,
     recommendations |-> <<Rec("Error", "Analysis Failed", "high")>>,
     explanation |-> "Unable to analyze crawlability"]

\* NormalizedCrawlabilityAnalyzer.analyze after normalized_crawl returned
NCA_Analyze(crawl) ==
    IF ~crawl.success
    THEN NCA_CreateFailedResult
    ELSE LET score == NCA_CalculateNormalizedCrawlabilityScore(crawl.features).overall
         IN  [returned |-> TRUE, raised |-> FALSE, score |-> score,
              recommendations |-> NCA_GenerateNormalizedRecommendations(crawl.features),
              explanation |-> NCA_GenerateExplanation(score)]

(***************************************************************************)
(* CrawlabilityAnalyzer: normalization, features, score, result.           *)
(***************************************************************************)

\* self.max_load_time, in ms
MaxLoadTime == 15000

\* self.retry_attempts
RetryAttempts == 3

\* The smoothing with 2.5 as the base of its last branch
CA_SmoothedFromTwoAndHalf(raw_load_time) ==
    LET normalized_load_time == Min(raw_load_time, MaxLoadTime)
    IN  IF normalized_load_time <= 1000 THEN normalized_load_time
        ELSE IF normalized_load_time <= 3000
             THEN 1000 + ((normalized_load_time - 1000) * 8) \div 10
             ELSE 2500 + ((normalized_load_time - 3000) * 5) \div 10

\* The smoothing of _apply_normalization, in ms
CA_SmoothedLoadTime(raw_load_time) ==
    LET normalized_load_time == Min(raw_load_time, MaxLoadTime)
    IN  IF normalized_load_time <= 1000 THEN normalized_load_time
        ELSE IF normalized_load_time <= 3000
             THEN 1000 + ((normalized_load_time - 1000) * 8) \div 10
             ELSE 2600 + ((normalized_load_time - 3000) * 5) \div 10

CA_CalculateNormalizedLoadTimeScore(load_time) ==
    IF load_time <= 1000 THEN 40
    ELSE IF load_time <= 1500 THEN 38
    ELSE IF load_time <= 2000 THEN 35
    ELSE IF load_time <= 2500 THEN 32
    ELSE IF load_time <= 3000 THEN 28
    ELSE IF load_time <= 4000 THEN 25
    ELSE IF load_time <= 5000 THEN 20
    ELSE 15

CA_CalculateNormalizedContentSizeScore(content_size) ==
    IF 10 * content_size <= 3 * MB THEN 20
    ELSE IF 2 * content_size <= MB THEN 18
    ELSE IF content_size <= MB THEN 15
    ELSE IF content_size <= 2 * MB THEN 12
    ELSE IF content_size <= 3 * MB THEN 8
    ELSE 5

CA_CalculateContentQualityScore(word_count, title_len, meta_len) ==
    Min( (IF word_count >= 500 THEN 15 ELSE IF word_count >= 300 THEN 12
          ELSE IF word_count >= 150 THEN 8 ELSE IF word_count >= 50 THEN 5 ELSE 0)
         + (IF 30 <= title_len /\ title_len <= 60 THEN 10
            ELSE IF 20 <= title_len /\ title_len <= 80 THEN 7
            ELSE IF title_len > 0 THEN 3 ELSE 0)
         + (IF 120 <= meta_len /\ meta_len <= 160 THEN 10
            ELSE IF 80 <= meta_len /\ meta_len <= 200 THEN 7
            ELSE IF meta_len > 0 THEN 3 ELSE 0),
         35 )

CA_CalculateTechnicalQualityScore(has_ssl, has_viewport, has_canonical) ==
    Min( (IF has_ssl THEN 15 ELSE 0) + (IF has_viewport THEN 10 ELSE 0)
         + (IF has_canonical THEN 5 ELSE 0),
         40 )

\* _extract_normalized_features of CrawlabilityAnalyzer; scheme is the scheme
\* of crawl_result['url'], load_time the smoothed load time
CA_ExtractNormalizedFeatures(page, scheme, load_time) ==
    LET meta_len == IF page.desc_len > 0 THEN page.desc_len ELSE page.og_desc_len
        has_ssl == scheme = "https"
    IN  [title_length |-> page.title_len,
         title_present |-> page.title_len > 0,
         meta_description_length |-> meta_len,
         meta_description_present |-> meta_len > 0,
         word_count |-> page.words_visible,
         h1_count |-> page.h1,
         h2_count |-> page.h2,
         h3_count |-> page.h3,
         internal_links_count |-> page.links.same_host + page.links.root_relative,
         external_links_count |-> page.links.other_host,
         images_count |-> page.imgs,
         images_with_alt_count |-> page.imgs_alt,
         has_viewport |-> page.viewport,
         has_canonical |-> page.canonical,
         has_robots_meta |-> page.robots,
         has_ssl |-> has_ssl,
         compression_enabled |-> page.encoding \in {"gzip", "br", "deflate"},
         load_time |-> load_time,
         content_size |-> page.size,
         load_time_score |-> CA_CalculateNormalizedLoadTimeScore(load_time),
         content_size_score |-> CA_CalculateNormalizedContentSizeScore(page.size),
         content_quality_score |->
             CA_CalculateContentQualityScore(page.words_visible, page.title_len, meta_len),
         technical_quality_score |->
             CA_CalculateTechnicalQualityScore(has_ssl, page.viewport, page.canonical)]

\* _calculate_normalized_crawlability_score of CrawlabilityAnalyzer, with the
\* performance score left uncapped
CA_ScoreUncappedPerformance(f) ==
    LET content == Min(f.content_quality_score, 35)
        technical == Min(f.technical_quality_score, 40)
        performance == (6 * f.load_time_score + 4 * f.content_size_score) \div 10
    IN  [content |-> content, technical |-> technical, performance |-> performance,
         overall |-> Min(content + technical + performance, 100)]

\* _calculate_normalized_crawlability_score of CrawlabilityAnalyzer: the
\* three capped category scores and the returned total.  On the tier values
\* of this class int(l * 0.6 + s * 0.4) is the floor of the exact value.
CA_CalculateNormalizedCrawlabilityScore(f) ==
    LET content == Min(f.content_quality_score, 35)
        technical == Min(f.technical_quality_score, 40)
        performance == Min((6 * f.load_time_score + 4 * f.content_size_score) \div 10, 25)
    IN  [content |-> content, technical |-> technical, performance |-> performance,
         overall |-> Min(content + technical + performance, 100)]

\* The keyword arguments of one Recommendation(...) call
RecCall(category, title, priority) ==
    [category |-> category, title |-> title, priority |-> priority,
     keywords |-> {"category", "title", "description", "priority", "impact", "effort",
                   "resources"}]

\* The values of PriorityLevel in backend/models/schemas.py
PriorityLevel == {"Low", "Medium", "High", "Critical"}

\* Whether backend.models.schemas.Recommendation, the class
\* crawlability_analyzer.py imports, accepts a call: priority, title and
\* message are required, priority must be a value of PriorityLevel.
SchemaRecommendationAccepts(call) ==
    /\ {"priority", "title", "message"} \subseteq call.keywords
    /\ call.priority \in PriorityLevel

\* _generate_recommendations: the Recommendation(...) calls it makes, in order
CA_RecommendationCalls(f) ==
       Opt(f.word_count < 300, RecCall("Content", "Increase Content Length", "medium"))
    \o Opt(~f.title_present, RecCall("SEO", "Add Page Title", "high"))
    \o Opt(~f.has_viewport, RecCall("Mobile", "Add Viewport Meta Tag", "high"))
    \o Opt(f.load_time > 3000, RecCall("Performance", "Improve Page Load Speed", "medium"))

CA_GenerateExplanation(score) ==
    IF score >= 90 THEN "Excellent"
    ELSE IF score >= 80 THEN "Good"
    ELSE IF score >= 70 THEN "Fair"
    ELSE IF score >= 60 THEN "Poor"
    ELSE "Critical"

\* _create_failed_result of CrawlabilityAnalyzer: the dict, unless the
\* Recommendation(...) call inside it raises a ValidationError
CA_CreateFailedResult ==
    IF SchemaRecommendationAccepts(RecCall("Error", "Analysis Failed", "high"))
    THEN [returned |-> TRUE, raised |-> FALSE, score |-> 0,
          recommendations |-> <<Rec("Error", "Analysis Failed", "high")>>,
          explanation |-> "Unable to analyze crawlability"]
    ELSE Raised

\* CrawlabilityAnalyzer.analyze after normalized_crawl returned.  Every
\* exception of the try block, and the failed crawl, end in
\* _create_failed_result.
CA_Analyze(crawl) ==
    IF ~crawl.success
    THEN CA_CreateFailedResult
    ELSE LET score == CA_CalculateNormalizedCrawlabilityScore(crawl.features).overall
             calls == CA_RecommendationCalls(crawl.features)
         IN  IF \A i \in 1..Len(calls) : SchemaRecommendationAccepts(calls[i])
             THEN [returned |-> TRUE, raised |-> FALSE, score |-> score,
                   recommendations |->
                       Truncate([i \in 1..Len(calls) |->
                                    Rec(calls[i].category, calls[i].title, calls[i].priority)], 6),
                   explanation |-> CA_GenerateExplanation(score)]
             ELSE CA_CreateFailedResult

(***************************************************************************)
(* The samplers: CrawlabilityAnalyzer.normalized_crawl and                 *)
(* EnvironmentNormalizer.normalized_crawl, run by analyze() in one task.   *)
(***************************************************************************)

LoadTimes == {500, 900, 5000, 7000}

NoFeatures == <<>>

NoCrawl == [success |-> FALSE, error |-> "", strategy |-> "", base |-> 0,
            raw_load_time |-> -1, normalized_load_time |-> -1, features |-> NoFeatures]

\* What the network does to the single request of one sampling attempt:
\* a response (error "none") with its status, body and elapsed time, a
\* timeout, or another exception (status 0: before any response; status
\* 200: while the body was read or decoded).
ResponseOutcomes(statuses) ==
    { [status |-> 200, error |-> "none", load_time |-> lt, page |-> p] :
          lt \in LoadTimes, p \in {GoodPage, PoorPage} }
    \cup { [status |-> st, error |-> "none", load_time |-> lt, page |-> BlockPage] :
               st \in statuses \ {200}, lt \in LoadTimes }

ErrorOutcomes ==
    { [status |-> 0, error |-> "timeout", load_time |-> 0, page |-> BlockPage],
      [status |-> 0, error |-> "exception", load_time |-> 0, page |-> BlockPage],
      [status |-> 200, error |-> "exception", load_time |-> 0, page |-> BlockPage] }

AttemptOutcomes == ResponseOutcomes({200, 403}) \cup ErrorOutcomes

\* except clauses: whether a handler for class handler catches an exception
\* of class exc.  asyncio.CancelledError derives from BaseException, not
\* from Exception (aiohttp 3.9 needs Python 3.8 or later).  CatchesAll is a
\* bare `except:` in their place.
CatchesAll(handler, exc) == TRUE

\* the except clauses of the samplers as Python resolves them
Catches(handler, exc) ==
    CASE handler = "Exception" -> exc \in {"TimeoutError", "ClientError"}
      [] handler = "TimeoutError" -> exc = "TimeoutError"
      [] OTHER -> FALSE

\* _single_normalized_attempt: the dict it returns
CA_SingleNormalizedAttempt(o, attempt_num, scheme) ==
    IF o.error = "none" /\ o.status = 200
    THEN [success |-> TRUE, scheme |-> scheme, status_code |-> o.status,
          load_time |-> o.load_time, page |-> o.page, attempt |-> attempt_num]
    ELSE [success |-> FALSE, scheme |-> scheme, status_code |-> o.status,
          load_time |-> 0, page |-> o.page, attempt |-> attempt_num]

\* _single_crawl_attempt: the dict it returns; an exception of the request
\* leaves it through no handler (raised), and the loop of normalized_crawl
\* catches it
EN_SingleCrawlAttempt(o, attempt_num) ==
    IF o.error = "none"
    THEN [success |-> TRUE, raised |-> FALSE, status_code |-> o.status,
          load_time |-> o.load_time, page |-> o.page, attempt |-> attempt_num,
          features |-> EN_ExtractNormalizedFeatures(o.page, o.load_time)]
    ELSE [success |-> FALSE, raised |-> TRUE, status_code |-> o.status,
          load_time |-> 0, page |-> o.page, attempt |-> attempt_num,
          features |-> NoFeatures]

\* attempts.sort(key=lambda x: x['load_time']): stable
RECURSIVE InsertByLoadTime(_, _)
InsertByLoadTime(s, a) ==
    IF s = <<>> THEN <<a>>
    ELSE IF a.load_time < Head(s).load_time THEN <<a>> \o s
    ELSE <<Head(s)>> \o InsertByLoadTime(Tail(s), a)

RECURSIVE SortByLoadTime(_)
SortByLoadTime(s) ==
    IF s = <<>> THEN <<>>
    ELSE InsertByLoadTime(SortByLoadTime(SubSeq(s, 1, Len(s) - 1)), s[Len(s)])

\* The index (from 1) of attempts[(len(attempts) - 1) // 2]
CA_LowerMedianIndex(n) == ((n - 1) \div 2) + 1

\* The index (from 1) of attempts[len(attempts) // 2]
CA_SelectedIndex(n) == (n \div 2) + 1

\* _apply_normalization extracting the features with the raw load time
CA_ApplyNormalizationRaw(a) ==
    [success |-> TRUE, error |-> "", strategy |-> "normalized", base |-> a.attempt,
     raw_load_time |-> a.load_time,
     normalized_load_time |-> a.load_time,
     features |-> CA_ExtractNormalizedFeatures(a.page, a.scheme, a.load_time)]

\* _apply_normalization: the updated crawl_result
CA_ApplyNormalization(a) ==
    [success |-> TRUE, error |-> "", strategy |-> "normalized", base |-> a.attempt,
     raw_load_time |-> a.load_time,
     normalized_load_time |-> CA_SmoothedLoadTime(a.load_time),
     features |-> CA_ExtractNormalizedFeatures(a.page, a.scheme, CA_SmoothedLoadTime(a.load_time))]

\* normalized_crawl of CrawlabilityAnalyzer after its loop, on the list
\* already sorted when it has two or more elements
CA_NormalizedCrawlResult(sorted) ==
    IF sorted = <<>>
    THEN [NoCrawl EXCEPT !.error = "All normalized crawl attempts failed",
                         !.strategy = "normalized_failed"]
    ELSE IF Len(sorted) >= 2
         THEN CA_ApplyNormalization(sorted[CA_SelectedIndex(Len(sorted))])
         ELSE CA_ApplyNormalization(sorted[1])

\* normalized_crawl of EnvironmentNormalizer after its loop, base being the
\* attempt min() picked
EN_NormalizedCrawlResult(att, base) ==
    IF att = <<>>
    THEN [NoCrawl EXCEPT !.error = "All crawl attempts failed"]
    ELSE [success |-> TRUE, error |-> "", strategy |-> "", base |-> att[base].attempt,
          raw_load_time |-> att[base].load_time, normalized_load_time |-> -1,
          features |-> EN_NormalizeResults(att, base)]

\* The requests of an attempt that went through a chain of strategies
ChainRequests(an, attempt_num) ==
    << [method |-> "GET", headers |-> "full", attempt |-> attempt_num],
       [method |-> "GET", headers |-> "user_agent", attempt |-> attempt_num],
       [method |-> "GET", headers |-> "none", attempt |-> attempt_num],
       [method |-> "HEAD", headers |-> "none", attempt |-> attempt_num] >>

\* The requests one sampling attempt puts on the wire: one session.get
AttemptRequests(an, attempt_num) ==
    << [method |-> "GET",
        headers |-> IF an = "crawlability" THEN "standard_headers" ELSE "standardized_headers",
        attempt |-> attempt_num] >>

\* `for attempt in range(3)` of EnvironmentNormalizer.normalized_crawl
EN_Attempts == 3

\* The number of iterations of the sampling loop of analyzer an
AttemptCount(an) == IF an = "crawlability" THEN RetryAttempts ELSE EN_Attempts

\* `if attempt == 1` in place of `if attempt > 0`
CA_SleepsBeforeSecondOnly(attempt) == attempt = 1

\* `if attempt > 0: await asyncio.sleep(self.retry_delay)`
CA_SleepsBefore(attempt) == attempt > 0

\* The loop `for attempt in range(...)` reaches iteration i with the list
\* att (slept: the sleep of this iteration is over): it sleeps or starts the
\* fetch of attempt i, or, past the last iteration, normalized_crawl and
\* analyze run to their end.
Iterate(i, att, log, fl, slept) ==
    IF i < AttemptCount(analyzer)
    THEN /\ sAttempt' = i
         /\ attempts' = att
         /\ UNCHANGED <<crawlOut, analysis>>
         /\ IF analyzer = "crawlability" /\ CA_SleepsBefore(i) /\ ~slept
            THEN /\ sPc' = "sleeping"
                 /\ sLog' = Append(log, "sleep")
                 /\ inFlight' = fl
                 /\ UNCHANGED sReqs
            ELSE /\ sPc' = "fetching"
                 /\ sLog' = Append(log, "start")
                 /\ inFlight' = fl + 1
                 /\ sReqs' = sReqs \o AttemptRequests(analyzer, i + 1)
    ELSE /\ sPc' = "done"
         /\ sAttempt' = i
         /\ sLog' = log
         /\ inFlight' = fl
         /\ UNCHANGED sReqs
         /\ IF analyzer = "crawlability"
            THEN /\ attempts' = IF Len(att) >= 2 THEN SortByLoadTime(att) ELSE att
                 /\ crawlOut' = CA_NormalizedCrawlResult(attempts')
                 /\ analysis' = CA_Analyze(crawlOut')
            ELSE /\ attempts' = att
                 /\ \E base \in (IF att = <<>> THEN {0} ELSE EN_BaseCandidates(att)) :
                        crawlOut' = EN_NormalizedCrawlResult(att, base)
                 /\ analysis' = NCA_Analyze(crawlOut')

\* analyze(url) is called: the task runs up to its first await
Analyze ==
    /\ sPc = "idle"
    /\ history' = history
    /\ Iterate(0, <<>>, sLog, inFlight, FALSE)
    /\ UNCHANGED <<analyzer, sUrl, cancelReq>>
    /\ UNCHANGED crawlVars
    /\ UNCHANGED scoreVars
    /\ UNCHANGED otherVars

\* asyncio.sleep(self.retry_delay) returns
WakeUp ==
    /\ sPc = "sleeping"
    /\ ~cancelReq
    /\ history' = history
    /\ Iterate(sAttempt, attempts, sLog, inFlight, TRUE)
    /\ UNCHANGED <<analyzer, sUrl, cancelReq>>
    /\ UNCHANGED crawlVars
    /\ UNCHANGED scoreVars
    /\ UNCHANGED otherVars

\* The request of the attempt in flight ends with outcome o
AttemptEnds ==
    /\ sPc = "fetching"
    /\ ~cancelReq
    /\ \E o \in AttemptOutcomes :
          LET r == IF analyzer = "crawlability"
                   THEN CA_SingleNormalizedAttempt(o, sAttempt + 1, sUrl)
                   ELSE EN_SingleCrawlAttempt(o, sAttempt + 1)
          IN  /\ history' = Append(history, [attempt |-> sAttempt + 1, status |-> o.status,
                                             error |-> o.error, load_time |-> o.load_time])
              /\ Iterate(sAttempt + 1,
                         IF r.success THEN Append(attempts, r) ELSE attempts,
                         Append(sLog, "end"), inFlight - 1, FALSE)
    /\ UNCHANGED <<analyzer, sUrl, cancelReq>>
    /\ UNCHANGED crawlVars
    /\ UNCHANGED scoreVars
    /\ UNCHANGED otherVars

\* Another task calls cancel() on the task while it is suspended
Cancel ==
    /\ sPc \in {"fetching", "sleeping"}
    /\ ~cancelReq
    /\ cancelReq' = TRUE
    /\ UNCHANGED <<analyzer, sUrl, sPc, sAttempt, attempts, history, sLog, sReqs, inFlight,
                   crawlOut, analysis>>
    /\ UNCHANGED crawlVars
    /\ UNCHANGED scoreVars
    /\ UNCHANGED otherVars

\* The task resumes with CancelledError raised at its await.  The handlers
\* on the way out are the `except Exception` clauses of the attempt and of
\* the loop (`continue`); an exception they do not catch leaves analyze().
CancelDelivered ==
    /\ sPc \in {"fetching", "sleeping"}
    /\ cancelReq
    /\ cancelReq' = FALSE
    /\ history' = history
    /\ IF Catches("Exception", "CancelledError")
       THEN Iterate(sAttempt + 1, attempts, Append(sLog, "cancelled"),
                    IF sPc = "fetching" THEN inFlight - 1 ELSE inFlight, FALSE)
       ELSE /\ sPc' = "cancelled"
            /\ sLog' = Append(sLog, "cancelled")
            /\ inFlight' = IF sPc = "fetching" THEN inFlight - 1 ELSE inFlight
            /\ analysis' = Raised
            /\ UNCHANGED <<sAttempt, attempts, sReqs, crawlOut>>
    /\ UNCHANGED <<analyzer, sUrl>>
    /\ UNCHANGED crawlVars
    /\ UNCHANGED scoreVars
    /\ UNCHANGED otherVars

(***************************************************************************)
(* Scoring as a function of the page: the features of one attempt of       *)
(* CrawlabilityAnalyzer, or of one to three attempts of                    *)
(* EnvironmentNormalizer, and the score computed from them.                *)
(***************************************************************************)

\* The most h1 elements of a scored page
MaxH1 == 2

NoScore == [scored |-> FALSE, kind |-> "", content2 |-> 0, technical2 |-> 0,
            performance |-> 0, overall |-> 0, features |-> NoFeatures, result |-> NoAnalysis]

ScorePages ==
    { [GoodPage EXCEPT !.title_len = t, !.desc_len = d, !.words_all = w, !.words_visible = w,
                       !.h1 = h, !.viewport = v, !.canonical = v2, !.imgs_alt = a, !.size = z] :
          t \in {0, 25, 45}, d \in {0, 100, 140}, w \in {0, 60, 320, 520}, h \in 0..MaxH1,
          v \in BOOLEAN, v2 \in BOOLEAN, a \in {0, 2, 4}, z \in {40960, MB + 524288, 6 * MB} }

ScoreLoadTimes == {800, 2500, 7000}

\* The observations the multi-attempt medians are taken of
MedianObservations ==
    { [page |-> GoodPage, load_time |-> 500],
      [page |-> PoorPage, load_time |-> 2500],
      [page |-> BlockPage, load_time |-> 7000],
      [page |-> [GoodPage EXCEPT !.h1 = MaxH1, !.size = 3 * MB], load_time |-> 900],
      [page |-> PoorPage, load_time |-> 7000] }

ScoreInputs ==
    { [kind |-> "crawlability", scheme |-> sc, obs |-> <<[page |-> p, load_time |-> lt]>>] :
          sc \in Schemes, lt \in ScoreLoadTimes,
          p \in {q \in ScorePages : q.h1 >= 1 /\ q.imgs_alt = 4} }
    \cup { [kind |-> "normalized", scheme |-> "https", obs |-> <<[page |-> p, load_time |-> lt]>>] :
               lt \in ScoreLoadTimes, p \in {q \in ScorePages : q.canonical} }
    \cup { [kind |-> "normalized", scheme |-> "https", obs |-> <<o1>>] :
               o1 \in MedianObservations }
    \cup { [kind |-> "crawlability", scheme |-> "https", obs |-> <<o1>>] :
               o1 \in MedianObservations }
    \cup { [kind |-> "normalized", scheme |-> "https", obs |-> <<o1, o2>>] :
               o1 \in MedianObservations, o2 \in MedianObservations }
    \cup { [kind |-> "normalized", scheme |-> "https", obs |-> <<o1, o2, o3>>] :
               o1 \in MedianObservations, o2 \in MedianObservations, o3 \in MedianObservations }

\* CrawlabilityAnalyzer scores the features of the selected attempt
ScoreCrawlability ==
    /\ fsIn.kind = "crawlability"
    /\ ~fsOut.scored
    /\ LET a == CA_SingleNormalizedAttempt(
                    [status |-> 200, error |-> "none", load_time |-> fsIn.obs[1].load_time,
                     page |-> fsIn.obs[1].page], 1, fsIn.scheme)
           crawl == CA_ApplyNormalization(a)
           f == crawl.features
           b == CA_CalculateNormalizedCrawlabilityScore(f)
       IN  fsOut' = [scored |-> TRUE, kind |-> "crawlability", content2 |-> 2 * b.content,
                     technical2 |-> 2 * b.technical, performance |-> b.performance,
                     overall |-> b.overall, features |-> f, result |-> CA_Analyze(crawl)]
    /\ UNCHANGED fsIn
    /\ UNCHANGED crawlVars
    /\ UNCHANGED sampleVars
    /\ UNCHANGED otherVars

\* NormalizedCrawlabilityAnalyzer scores the features EnvironmentNormalizer
\* made of the attempts
ScoreNormalized ==
    /\ fsIn.kind = "normalized"
    /\ ~fsOut.scored
    /\ LET att == [i \in 1..Len(fsIn.obs) |->
                      EN_SingleCrawlAttempt(
                          [status |-> 200, error |-> "none",
                           load_time |-> fsIn.obs[i].load_time, page |-> fsIn.obs[i].page], i)]
       IN  \E base \in EN_BaseCandidates(att) :
              LET f == EN_NormalizeResults(att, base)
                  b == NCA_CalculateNormalizedCrawlabilityScore(f)
              IN  fsOut' = [scored |-> TRUE, kind |-> "normalized", content2 |-> b.content2,
                            technical2 |-> b.technical2, performance |-> b.performance,
                            overall |-> b.overall, features |-> f,
                            result |-> NCA_Analyze(EN_NormalizedCrawlResult(att, base))]
    /\ UNCHANGED fsIn
    /\ UNCHANGED crawlVars
    /\ UNCHANGED sampleVars
    /\ UNCHANGED otherVars

(***************************************************************************)
(* The labellers: _generate_explanation of both analyzers (the first word  *)
(* of the text is the label) and AIAnalyzer._determine_label.              *)
(***************************************************************************)

\* The highest overall score (Field(ge=0, le=100) of AIAnalysisResult.score)
MaxScore == 100

Labellers == {"crawlability", "normalized", "ai"}

\* AIAnalyzer._determine_label on a score given in hundredths: the method
\* gets overall_score in 0..1, and the result carries overall_score * 100
AI_DetermineLabel(score) ==
    IF score >= 90 THEN "Excellent"
    ELSE IF score >= 80 THEN "Very Good"
    ELSE IF score >= 70 THEN "Good"
    ELSE IF score >= 60 THEN "Fair"
    ELSE IF score >= 40 THEN "Needs Improvement"
    ELSE "Poor"

LabelOf(labeller, score) ==
    CASE labeller = "crawlability" -> CA_GenerateExplanation(score)
      [] labeller = "normalized" -> NCA_GenerateExplanation(score)
      [] labeller = "ai" -> AI_DetermineLabel(score)

\* CrawlabilityAnalyzer.analyze labels the score
ExplainCrawlability ==
    /\ lbLabels["crawlability"] = ""
    /\ lbLabels' = [lbLabels EXCEPT !["crawlability"] = LabelOf("crawlability", lbScore)]
    /\ UNCHANGED lbScore
    /\ UNCHANGED <<crawlVars, sampleVars, scoreVars, smoothVars, aiVars, batchVars, extractVars, purityVars, frameVars, limitVars, bucketVars>>

\* NormalizedCrawlabilityAnalyzer.analyze labels the score
ExplainNormalized ==
    /\ lbLabels["normalized"] = ""
    /\ lbLabels' = [lbLabels EXCEPT !["normalized"] = LabelOf("normalized", lbScore)]
    /\ UNCHANGED lbScore
    /\ UNCHANGED <<crawlVars, sampleVars, scoreVars, smoothVars, aiVars, batchVars, extractVars, purityVars, frameVars, limitVars, bucketVars>>

\* AIAnalyzer._rule_based_analysis labels the score
DetermineLabel ==
    /\ lbLabels["ai"] = ""
    /\ lbLabels' = [lbLabels EXCEPT !["ai"] = LabelOf("ai", lbScore)]
    /\ UNCHANGED lbScore
    /\ UNCHANGED <<crawlVars, sampleVars, scoreVars, smoothVars, aiVars, batchVars, extractVars, purityVars, frameVars, limitVars, bucketVars>>

(***************************************************************************)
(* The load-time smoothing of CrawlabilityAnalyzer._apply_normalization,   *)
(* applied to two crawl results.                                           *)
(***************************************************************************)

\* Raw load times in ms around the breakpoints and the ceiling; on
\* multiples of 10 ms the factors 0.8 and 0.5 give whole milliseconds
RawLoadTimes ==
    {0, 10, 500, 990, 1000, 1010, 2000, 2990, 3000, 3010, 3020, 5000, 10000, 14990, 15000,
     15010, 20000}

\* _apply_normalization on crawl result k
ApplyNormalization ==
    /\ \E k \in 1..2 :
          /\ smOut[k] = -1
          /\ smOut' = [smOut EXCEPT ![k] = CA_SmoothedLoadTime(smRaw[k])]
    /\ UNCHANGED smRaw
    /\ UNCHANGED <<crawlVars, sampleVars, scoreVars, labelVars, aiVars, batchVars, extractVars, purityVars, frameVars, limitVars, bucketVars>>

(***************************************************************************)
(* AIAnalyzer: rule-based analysis and the optional enrichment by a        *)
(* language model (backend/core/ai_analyzer.py).  Factor and category      *)
(* scores are in thousandths, the score of a result is in thousandths of   *)
(* a point (90000 is a score of 90), confidence is in hundredths.          *)
(***************************************************************************)

\* self.analysis_rules, in the order of the dict
AI_Categories ==
    <<"technical_seo", "crawlability", "performance", "mobile_friendliness", "security",
      "accessibility">>

\* the weights of self.analysis_rules, in hundredths
AI_Weight(category) ==
    CASE category = "technical_seo" -> 25
      [] category = "crawlability" -> 20
      [] category = "performance" -> 20
      [] category = "mobile_friendliness" -> 15
      [] category = "security" -> 10
      [] category = "accessibility" -> 10

AI_Factors(category) ==
    CASE category = "technical_seo" ->
             <<"title_tag_present", "meta_description_present", "h1_count",
               "canonical_tag_present", "structured_data_present">>
      [] category = "crawlability" ->
             <<"robots_txt_exists", "sitemap_exists", "status_code",
               "robots_txt_blocks_crawling", "meta_robots_noindex">>
      [] category = "performance" ->
             <<"page_load_time", "html_size", "compression_enabled", "cache_headers_present",
               "lazy_loading_images">>
      [] category = "mobile_friendliness" -> <<"mobile_friendly", "viewport_configured">>
      [] category = "security" ->
             <<"https_enabled", "ssl_certificate_valid", "security_headers_count">>
      [] category = "accessibility" ->
             <<"images_with_alt_count", "lang_attribute_present", "accessibility_score">>

\* The factors whose field of CrawlabilityFeatures is a bool
AI_BooleanFactors ==
    {"title_tag_present", "meta_description_present", "canonical_tag_present",
     "structured_data_present", "robots_txt_exists", "sitemap_exists",
     "robots_txt_blocks_crawling", "meta_robots_noindex", "compression_enabled",
     "cache_headers_present", "mobile_friendly", "viewport_configured", "https_enabled",
     "ssl_certificate_valid", "lang_attribute_present"}

\* _evaluate_factor, in thousandths
AI_EvaluateFactor(features, factor) ==
    LET value == features[factor]
    IN  IF factor \in AI_BooleanFactors THEN (IF value THEN 1000 ELSE 0)
        ELSE CASE factor = "status_code" -> IF value = 200 THEN 1000 ELSE 0
               [] factor = "h1_count" -> IF value = 1 THEN 1000 ELSE IF value > 1 THEN 500 ELSE 0
               [] factor = "page_load_time" ->
                      IF value < 1000 THEN 1000 ELSE IF value < 2000 THEN 800
                      ELSE IF value < 3000 THEN 600 ELSE 300
               [] factor = "html_size" ->
                      IF value < 50000 THEN 1000 ELSE IF value < 100000 THEN 800
                      ELSE IF value < 200000 THEN 600 ELSE 300
               [] factor = "security_headers_count" -> Min(200 * value, 1000)
               [] factor = "images_with_alt_count" ->
                      IF features.images_count > 0
                      THEN (1000 * value) \div features.images_count
                      ELSE 1000
               [] factor = "lazy_loading_images" -> Min(200 * value, 1000)
               [] factor = "accessibility_score" -> value
               [] OTHER -> Min(1000 * value, 1000)

RECURSIVE AI_FactorSum(_, _)
AI_FactorSum(features, factors) ==
    IF factors = <<>> THEN 0
    ELSE AI_EvaluateFactor(features, Head(factors)) + AI_FactorSum(features, Tail(factors))

\* _calculate_category_score, in thousandths
AI_CalculateCategoryScore(features, category) ==
    AI_FactorSum(features, AI_Factors(category)) \div Len(AI_Factors(category))

AIRec(priority, title) == [priority |-> priority, title |-> title]

\* _generate_category_recommendations
AI_GenerateCategoryRecommendations(category, features) ==
    CASE category = "technical_seo" ->
                Opt(~features.title_tag_present, AIRec("High", "Add Title Tag"))
             \o Opt(~features.meta_description_present, AIRec("High", "Add Meta Description"))
             \o Opt(features.h1_count # 1, AIRec("Medium", "Optimize H1 Structure"))
      [] category = "crawlability" ->
                Opt(~features.robots_txt_exists, AIRec("Medium", "Create Robots.txt"))
             \o Opt(~features.sitemap_exists, AIRec("Medium", "Create XML Sitemap"))
      [] category = "performance" ->
                Opt(features.page_load_time > 3000, AIRec("High", "Improve Page Load Speed"))
             \o Opt(~features.compression_enabled, AIRec("Medium", "Enable Compression"))
      [] category = "mobile_friendliness" ->
                Opt(~features.mobile_friendly, AIRec("High", "Implement Responsive Design"))
      [] category = "security" ->
                Opt(~features.https_enabled, AIRec("High", "Enable HTTPS"))
      [] category = "accessibility" ->
                Opt(features.images_count > 0
                      /\ features.images_with_alt_count < features.images_count,
                    AIRec("Medium", "Add Alt Text to Images"))

\* the loop of _rule_based_analysis over the categories from index i on:
\* the recommendations of the categories scoring below 0.7
RECURSIVE AI_LowScoreRecommendations(_, _)
AI_LowScoreRecommendations(features, i) ==
    IF i > Len(AI_Categories) THEN <<>>
    ELSE (IF 10 * AI_FactorSum(features, AI_Factors(AI_Categories[i]))
               < 7000 * Len(AI_Factors(AI_Categories[i]))
          THEN AI_GenerateCategoryRecommendations(AI_Categories[i], features)
          ELSE <<>>)
         \o AI_LowScoreRecommendations(features, i + 1)

\* overall_score of _rule_based_analysis times 3 000 000: the weighted sum
\* of the category scores, each factor sum brought to the denominator 30
RECURSIVE AI_OverallScore(_, _)
AI_OverallScore(features, i) ==
    IF i > Len(AI_Categories) THEN 0
    ELSE AI_FactorSum(features, AI_Factors(AI_Categories[i]))
            * (30 \div Len(AI_Factors(AI_Categories[i]))) * AI_Weight(AI_Categories[i])
         + AI_OverallScore(features, i + 1)

\* _calculate_confidence, in hundredths; score is overall_score times 3 000 000
AI_CalculateConfidence(features, score) ==
    LET confidence ==
            70 + (IF features.status_code = 200 THEN 10 ELSE 0)
               + (IF features.html_size > 1000 THEN 10 ELSE 0)
               + (IF features.title_tag_present /\ features.meta_description_present
                  THEN 5 ELSE 0)
               + (IF features.robots_txt_exists \/ features.sitemap_exists THEN 5 ELSE 0)
               - (IF score < 600000 \/ score > 2850000 THEN 10 ELSE 0)
    IN  Min(IF confidence > 50 THEN confidence ELSE 50, 95)

\* The constraints of AIAnalysisResult and Recommendation in
\* backend/models/schemas.py: score in 0..100, confidence in 0..1, priority
\* a value of PriorityLevel
AI_ResultIsValid(result) ==
    /\ 0 <= result.score /\ result.score <= 1000 * MaxScore
    /\ 0 <= result.confidence /\ result.confidence <= 100
    /\ \A k \in 1..Len(result.recommendations) :
          result.recommendations[k].priority \in PriorityLevel

\* _create_fallback_result
AI_CreateFallbackResult ==
    [score |-> 50000, confidence |-> 50, label |-> "Analysis Incomplete",
     recommendations |-> <<AIRec("High", "Analysis Error")>>,
     category_scores |-> <<>>, analysis_method |-> "fallback", ai_explanation |-> ""]

\* _rule_based_analysis
AI_RuleBasedAnalysis(features) ==
    LET overall == AI_OverallScore(features, 1)
        result ==
            [score |-> overall \div 30,
             confidence |-> AI_CalculateConfidence(features, overall),
             label |-> AI_DetermineLabel(overall \div 30000),
             recommendations |-> Truncate(AI_LowScoreRecommendations(features, 1), 10),
             category_scores |->
                 [i \in 1..Len(AI_Categories) |->
                     AI_CalculateCategoryScore(features, AI_Categories[i])],
             analysis_method |-> "rule_based", ai_explanation |-> ""]
    IN  IF AI_ResultIsValid(result) THEN result ELSE AI_CreateFallbackResult

\* What openai.ChatCompletion.acreate and the parsing of its answer come to:
\* the call raises ("api_error"), the content is not JSON ("not_json"), the
\* JSON is not an object ("not_object"), or it is an object; complete tells
\* whether score, confidence, label and explanation are in it, priority is
\* the priority of its one recommendation ("" when it has none).
AI_Replies ==
    { [kind |-> k, complete |-> FALSE, score |-> 0, priority |-> ""] :
          k \in {"api_error", "not_json", "not_object"} }
    \cup { [kind |-> "object", complete |-> c, score |-> s, priority |-> p] :
               c \in BOOLEAN, s \in {85000, 150000}, p \in {"", "High", "high"} }

\* _ai_enhanced_analysis catching nothing: the result it builds, whatever
\* the reply
AI_EnhancedUnchecked(rule_result, reply) ==
    [score |-> IF reply.complete THEN reply.score ELSE rule_result.score,
     confidence |-> IF reply.complete THEN 90 ELSE rule_result.confidence,
     label |-> IF reply.complete THEN "Good" ELSE rule_result.label,
     recommendations |->
         Truncate(Opt(reply.priority # "", AIRec(reply.priority, "Fix Title Tag"))
                  \o rule_result.recommendations, 10),
     category_scores |-> rule_result.category_scores,
     analysis_method |-> "ai_enhanced",
     ai_explanation |-> IF reply.complete THEN "Brief analysis summary" ELSE ""]

\* _ai_enhanced_analysis: the enhanced result, or rule_result when anything
\* in the try block raised
AI_EnhancedAnalysis(rule_result, reply) ==
    LET enhanced == AI_EnhancedUnchecked(rule_result, reply)
    IN  IF reply.kind = "object" /\ AI_ResultIsValid(enhanced)
        THEN enhanced
        ELSE rule_result

NoAIResult ==
    [score |-> -1, confidence |-> -1, label |-> "", recommendations |-> <<>>,
     category_scores |-> <<>>, analysis_method |-> "", ai_explanation |-> ""]

\* The features FeatureExtractor makes of a page
AI_GoodFeatures ==
    [title_tag_present |-> TRUE, meta_description_present |-> TRUE, h1_count |-> 1,
     canonical_tag_present |-> TRUE, structured_data_present |-> TRUE,
     robots_txt_exists |-> TRUE, sitemap_exists |-> TRUE, status_code |-> 200,
     robots_txt_blocks_crawling |-> FALSE, meta_robots_noindex |-> FALSE,
     page_load_time |-> 800, html_size |-> 40960, compression_enabled |-> TRUE,
     cache_headers_present |-> TRUE, lazy_loading_images |-> 2,
     mobile_friendly |-> TRUE, viewport_configured |-> TRUE,
     https_enabled |-> TRUE, ssl_certificate_valid |-> TRUE, security_headers_count |-> 3,
     images_with_alt_count |-> 4, images_count |-> 4, lang_attribute_present |-> TRUE,
     accessibility_score |-> 900]

\* FeatureExtractor._create_empty_features, the features of a failed crawl
AI_EmptyFeatures ==
    [title_tag_present |-> FALSE, meta_description_present |-> FALSE, h1_count |-> 0,
     canonical_tag_present |-> FALSE, structured_data_present |-> FALSE,
     robots_txt_exists |-> FALSE, sitemap_exists |-> FALSE, status_code |-> 0,
     robots_txt_blocks_crawling |-> FALSE, meta_robots_noindex |-> FALSE,
     page_load_time |-> 0, html_size |-> 0, compression_enabled |-> FALSE,
     cache_headers_present |-> FALSE, lazy_loading_images |-> 0,
     mobile_friendly |-> FALSE, viewport_configured |-> FALSE,
     https_enabled |-> FALSE, ssl_certificate_valid |-> FALSE, security_headers_count |-> 0,
     images_with_alt_count |-> 0, images_count |-> 0, lang_attribute_present |-> FALSE,
     accessibility_score |-> 0]

AI_FeatureSets ==
    { AI_EmptyFeatures }
    \cup { [AI_GoodFeatures EXCEPT !.title_tag_present = t, !.h1_count = h,
                                   !.page_load_time = lt, !.mobile_friendly = m,
                                   !.images_with_alt_count = a] :
               t \in BOOLEAN, h \in {1, 2}, lt \in {800, 3500}, m \in BOOLEAN, a \in {2, 4} }

\* The values of OPENAI_API_KEY: unset, set without the prefix sk-, set with it
AI_ApiKeys == {"", "key", "sk-key"}

\* load_model: the model stays None unless the key has the prefix and
\* _find_available_model found a model
LoadModel ==
    /\ aiPc = "idle"
    /\ ~aiLoaded
    /\ aiLoaded' = TRUE
    /\ IF aiKey = "sk-key"
       THEN \E found \in {"", "gpt-4o-mini"} : aiModel' = found
       ELSE aiModel' = aiModel
    /\ UNCHANGED <<aiKey, aiPc, aiFeatures, aiRule, aiReply, aiOut>>
    /\ UNCHANGED <<crawlVars, sampleVars, scoreVars, labelVars, smoothVars, batchVars, extractVars, purityVars, frameVars, limitVars, bucketVars>>

\* analyze_crawlability up to its first await of the network, or to its end
\* when there is no key or no model
AnalyzeCrawlability ==
    /\ aiPc = "idle"
    /\ aiRule' = AI_RuleBasedAnalysis(aiFeatures)
    /\ IF aiKey # "" /\ aiModel # ""
       THEN /\ aiPc' = "enriching"
            /\ aiOut' = aiOut
       ELSE /\ aiPc' = "done"
            /\ aiOut' = aiRule'
    /\ UNCHANGED <<aiKey, aiModel, aiLoaded, aiFeatures, aiReply>>
    /\ UNCHANGED <<crawlVars, sampleVars, scoreVars, labelVars, smoothVars, batchVars, extractVars, purityVars, frameVars, limitVars, bucketVars>>

\* The call of the language model ends, with an answer or an exception
EnrichmentEnds ==
    /\ aiPc = "enriching"
    /\ \E reply \in AI_Replies :
          /\ aiReply' = reply
          /\ aiOut' = AI_EnhancedAnalysis(aiRule, reply)
    /\ aiPc' = "done"
    /\ UNCHANGED <<aiKey, aiModel, aiLoaded, aiFeatures, aiRule>>
    /\ UNCHANGED <<crawlVars, sampleVars, scoreVars, labelVars, smoothVars, batchVars, extractVars, purityVars, frameVars, limitVars, bucketVars>>

(***************************************************************************)
(* URLValidator.batch_validate_urls: one task per URL under a semaphore,   *)
(* gathered with return_exceptions=True (backend/core/validation.py).      *)
(* A URL is named after what validating it comes to.                       *)
(***************************************************************************)

\* asyncio.Semaphore(5)
SemaphoreLimit == 5

\* The longest batch of the enumerated batches
MaxBatch == 3

\* "good": reachable and verified; "malformed": _normalize_url gives None;
\* "suspicious": matches the patterns of _is_suspicious_url; "down": answers
\* HTTP 500; "unreachable": the connection fails; "unlisted": reachable, but
\* the search finds nothing and the domain is not trusted
UrlKinds == {"good", "malformed", "suspicious", "down", "unreachable", "unlisted"}

\* URLs validate_url gives up on before its first await
RejectedUnfetched == {"malformed", "suspicious"}

NoValidation == [is_valid |-> FALSE, error |-> "pending", status_code |-> -1]

\* validate_url: the ValidationResult it returns (status_code -1 for None)
ValidateUrl(url) ==
    CASE url = "good" -> [is_valid |-> TRUE, error |-> "", status_code |-> 200]
      [] url = "malformed" ->
             [is_valid |-> FALSE, error |-> "Invalid URL format", status_code |-> -1]
      [] url = "suspicious" ->
             [is_valid |-> FALSE, error |-> "Suspicious or potentially fake URL detected",
              status_code |-> -1]
      [] url = "down" -> [is_valid |-> FALSE, error |-> "HTTP 500", status_code |-> 500]
      [] url = "unreachable" ->
             [is_valid |-> FALSE, error |-> "Connection failed", status_code |-> 0]
      [] url = "unlisted" ->
             [is_valid |-> FALSE,
              error |-> "Website not found in search results and not recognized as legitimate",
              status_code |-> 200]

\* What gather put at one index: the return value of the task, or the
\* exception it raised
Returned(result) == [raised |-> FALSE, value |-> result]

\* The loop over results of batch_validate_urls, in the order tasks completed
BatchResultsAsCompleted(results, order) ==
    [i \in 1..Len(order) |->
        IF results[order[i]].raised
        THEN [is_valid |-> FALSE, error |-> "Validation failed", status_code |-> -1]
        ELSE results[order[i]].value]

\* The loop over results of batch_validate_urls: an exception becomes a
\* failed ValidationResult, a result is taken as it is, index by index
BatchResults(results, order) ==
    [i \in 1..Len(results) |->
        IF results[i].raised
        THEN [is_valid |-> FALSE, error |-> "Validation failed", status_code |-> -1]
        ELSE results[i].value]

\* The batches: every list of up to MaxBatch URLs, and two lists longer
\* than the semaphore is wide
BatchInputs ==
    UNION { [1..n -> UrlKinds] : n \in 1..MaxBatch }
    \cup { [i \in 1..(SemaphoreLimit + 1) |-> IF i = 2 THEN "unreachable" ELSE "good"],
           [i \in 1..(SemaphoreLimit + 2) |->
               IF i = 1 THEN "down" ELSE IF i = 4 THEN "malformed" ELSE "good"] }

\* Semaphore.acquire without a wait: nothing stops a task
AcquireUngated(value) == TRUE

\* Semaphore.acquire of `async with semaphore`: a task goes on only while
\* the value is positive, otherwise it waits for a release
Acquire(value) == value > 0

\* batch_validate_urls is called: the tasks are created, gather awaits them
BatchValidateUrls ==
    /\ bPc = "idle"
    /\ bPc' = "gathering"
    /\ bTasks' = [i \in 1..Len(bUrls) |-> "waiting"]
    /\ bResults' = [i \in 1..Len(bUrls) |-> Returned(NoValidation)]
    /\ UNCHANGED <<bUrls, bSem, bOrder, bOut>>
    /\ UNCHANGED <<crawlVars, sampleVars, scoreVars, labelVars, smoothVars, aiVars, extractVars, purityVars, frameVars, limitVars, bucketVars>>

\* Task i enters `async with semaphore` and runs validate_url up to its
\* first await; a URL rejected before any request is done at once
TaskStarts ==
    /\ bPc = "gathering"
    /\ \E i \in 1..Len(bUrls) :
          /\ bTasks[i] = "waiting"
          /\ Acquire(bSem)
          /\ IF bUrls[i] \in RejectedUnfetched
             THEN /\ bTasks' = [bTasks EXCEPT ![i] = "done"]
                  /\ bResults' = [bResults EXCEPT ![i] = Returned(ValidateUrl(bUrls[i]))]
                  /\ bOrder' = Append(bOrder, i)
                  /\ bSem' = bSem
             ELSE /\ bTasks' = [bTasks EXCEPT ![i] = "checking"]
                  /\ bSem' = bSem - 1
                  /\ UNCHANGED <<bResults, bOrder>>
    /\ UNCHANGED <<bUrls, bPc, bOut>>
    /\ UNCHANGED <<crawlVars, sampleVars, scoreVars, labelVars, smoothVars, aiVars, extractVars, purityVars, frameVars, limitVars, bucketVars>>

\* The requests of task i are over: validate_url returns, the semaphore is
\* released
TaskEnds ==
    /\ bPc = "gathering"
    /\ \E i \in 1..Len(bUrls) :
          /\ bTasks[i] = "checking"
          /\ bTasks' = [bTasks EXCEPT ![i] = "done"]
          /\ bResults' = [bResults EXCEPT ![i] = Returned(ValidateUrl(bUrls[i]))]
          /\ bOrder' = Append(bOrder, i)
          /\ bSem' = bSem + 1
    /\ UNCHANGED <<bUrls, bPc, bOut>>
    /\ UNCHANGED <<crawlVars, sampleVars, scoreVars, labelVars, smoothVars, aiVars, extractVars, purityVars, frameVars, limitVars, bucketVars>>

\* Every task is done: gather returns and batch_validate_urls builds its list
GatherReturns ==
    /\ bPc = "gathering"
    /\ \A i \in 1..Len(bUrls) : bTasks[i] = "done"
    /\ bPc' = "done"
    /\ bOut' = BatchResults(bResults, bOrder)
    /\ UNCHANGED <<bUrls, bTasks, bResults, bSem, bOrder>>
    /\ UNCHANGED <<crawlVars, sampleVars, scoreVars, labelVars, smoothVars, aiVars, extractVars, purityVars, frameVars, limitVars, bucketVars>>

(***************************************************************************)
(* FeatureExtractor.extract_features (backend/core/feature_extractor.py).  *)
(* A body is a page together with its style and script elements; the soup  *)
(* is what BeautifulSoup holds of it, and _count_words changes the soup.   *)
(***************************************************************************)

\* The features of CrawlabilityFeatures the extractor fills from the body
\* and the crawl result (url and the derived scores are left out)
FE_CreateEmptyFeatures ==
    [status_code |-> 0, https_enabled |-> FALSE, ssl_certificate_valid |-> FALSE,
     html_size |-> 0, word_count |-> 0,
     title_tag_present |-> FALSE, title_length |-> 0,
     meta_description_present |-> FALSE, meta_description_length |-> 0,
     h1_count |-> 0, internal_links_count |-> 0, external_links_count |-> 0,
     images_count |-> 0, images_with_alt_count |-> 0,
     canonical_tag_present |-> FALSE, structured_data_present |-> FALSE,
     viewport_configured |-> FALSE, external_scripts_count |-> 0,
     inline_css_count |-> 0, inline_js_count |-> 0]

\* BeautifulSoup(content, 'html.parser'): the elements of the body
FE_Soup(body) ==
    [page |-> body.page, styles |-> body.styles, inline_scripts |-> body.inline_scripts,
     external_scripts |-> body.external_scripts, jsonld |-> body.jsonld,
     microdata |-> body.microdata, code_words |-> body.code_words]

\* _count_words: every script and style element is decomposed, then the
\* words of the remaining text are counted; the count and the soup it leaves
FE_CountWords(soup) ==
    [count |-> soup.page.words_all - soup.code_words,
     soup |-> [soup EXCEPT !.styles = 0, !.inline_scripts = 0, !.external_scripts = 0,
                           !.jsonld = FALSE, !.code_words = 0]]

\* _analyze_links: hrefs that are empty or start with #, mailto: or tel: are
\* skipped, the others are resolved with urljoin and counted by their
\* netloc (a javascript: URL has none); a ValueError of urljoin or urlparse
\* ends in the bare except, which returns 0, 0
FE_AnalyzeLinks(l) ==
    IF l.malformed > 0
    THEN [internal |-> 0, external |-> 0]
    ELSE [internal |-> l.same_host + l.root_relative + l.relative, external |-> l.other_host]

\* _has_structured_data: a JSON-LD script element or a microdata attribute
FE_HasStructuredData(soup) == soup.jsonld \/ soup.microdata

\* The crawl results handed to extract_features: a failed crawl, and
\* successful ones with or without the key 'url'
FE_Bodies ==
    { [page |-> p, styles |-> st, inline_scripts |-> sc, external_scripts |-> sc,
       jsonld |-> jl, microdata |-> md, code_words |-> 20 * (st + sc)] :
         p \in {GoodPage, PoorPage, BlockPage,
                [GoodPage EXCEPT !.links = [GoodPage.links EXCEPT !.malformed = 1]]},
         st \in {0, 2}, sc \in {0, 1}, jl \in BOOLEAN, md \in BOOLEAN }

FE_CrawlResults ==
    { [success |-> FALSE, has_url |-> FALSE, scheme |-> "https", status_code |-> 403,
       body |-> b] : b \in {x \in FE_Bodies : x.page = BlockPage} }
    \cup { [success |-> TRUE, has_url |-> u, scheme |-> sch, status_code |-> 200, body |-> b] :
             u \in BOOLEAN, sch \in Schemes, b \in FE_Bodies }

NoCrawlResult ==
    [success |-> FALSE, has_url |-> FALSE, scheme |-> "https", status_code |-> 0,
     body |-> [page |-> BlockPage, styles |-> 0, inline_scripts |-> 0, external_scripts |-> 0,
               jsonld |-> FALSE, microdata |-> FALSE, code_words |-> 0]]

\* extract_features: a failed crawl and any exception (here the KeyError of
\* crawl_result['url']) give the empty features; otherwise word_count is
\* computed first and every later feature is read from the soup it leaves
FE_ExtractFeatures(crawl_result) ==
    IF ~crawl_result.success \/ ~crawl_result.has_url
    THEN FE_CreateEmptyFeatures
    ELSE LET counted == FE_CountWords(FE_Soup(crawl_result.body))
             soup == counted.soup
             page == soup.page
             links == FE_AnalyzeLinks(page.links)
         IN  [status_code |-> crawl_result.status_code,
              https_enabled |-> crawl_result.scheme = "https",
              ssl_certificate_valid |-> TRUE,
              html_size |-> page.size,
              word_count |-> counted.count,
              title_tag_present |-> page.title_len > 0,
              title_length |-> page.title_len,
              meta_description_present |-> page.desc_len > 0,
              meta_description_length |-> page.desc_len,
              h1_count |-> page.h1,
              internal_links_count |-> links.internal,
              external_links_count |-> links.external,
              images_count |-> page.imgs,
              images_with_alt_count |-> page.imgs_alt,
              canonical_tag_present |-> page.canonical,
              structured_data_present |-> FE_HasStructuredData(soup),
              viewport_configured |-> page.viewport,
              external_scripts_count |-> soup.external_scripts,
              inline_css_count |-> soup.styles,
              inline_js_count |-> soup.inline_scripts]

\* extract_features(crawl_result) is called and returns
ExtractFeatures ==
    /\ ~feDone
    /\ feDone' = TRUE
    /\ feOut' = FE_ExtractFeatures(feIn)
    /\ UNCHANGED feIn
    /\ UNCHANGED <<crawlVars, sampleVars, scoreVars, labelVars, smoothVars, aiVars, batchVars, purityVars, frameVars, limitVars, bucketVars>>

(***************************************************************************)
(* Calls of the scoring functions on feature dicts a caller keeps.  A call *)
(* is modelled by what it returns and by the dict as the call leaves it.   *)
(***************************************************************************)

\* The most scoring calls of one run
MaxScorings == 3

\* A scoring call that takes load_time_score out of the dict it is given
CA_ScoreCallConsuming(features) ==
    [score |-> CA_CalculateNormalizedCrawlabilityScore(features),
     features |-> [features EXCEPT !.load_time_score = 0]]

\* CrawlabilityAnalyzer._calculate_normalized_crawlability_score(features):
\* the dict is only read with features.get, and self is not used
CA_ScoreCall(features) ==
    [score |-> CA_CalculateNormalizedCrawlabilityScore(features), features |-> features]

\* NormalizedCrawlabilityAnalyzer._calculate_normalized_crawlability_score
NCA_ScoreCall(features) ==
    [score |-> NCA_CalculateNormalizedCrawlabilityScore(features), features |-> features]

\* The feature dicts that are scored: those of CrawlabilityAnalyzer, and
\* those EnvironmentNormalizer makes of one attempt
PF_FeatureSets ==
    { [kind |-> "crawlability", f |-> CA_ExtractNormalizedFeatures(p, "https", lt)] :
         p \in {GoodPage, PoorPage}, lt \in {800, 7000} }
    \cup
    { [kind |-> "normalized",
       f |-> EN_NormalizeResults(
                 << EN_SingleCrawlAttempt([status |-> 200, error |-> "none", load_time |-> lt,
                                           page |-> p], 1) >>, 1)] :
         p \in {GoodPage, PoorPage}, lt \in {800, 7000} }

\* The outcome of scoring the dict at index i of the store
PF_Scored(call, i) ==
    /\ pfStore' = [pfStore EXCEPT ![i] = [pfStore[i] EXCEPT !.f = call.features]]
    /\ pfLog' = Append(pfLog, [index |-> i, score |-> call.score])
    /\ UNCHANGED pfFirst
    /\ UNCHANGED <<crawlVars, sampleVars, scoreVars, labelVars, smoothVars, aiVars, batchVars, extractVars, frameVars, limitVars, bucketVars>>

\* CrawlabilityAnalyzer scores one of the dicts
ScoreWithCrawlability ==
    /\ Len(pfLog) < MaxScorings
    /\ \E i \in 1..Len(pfStore) :
          /\ pfStore[i].kind = "crawlability"
          /\ PF_Scored(CA_ScoreCall(pfStore[i].f), i)

\* NormalizedCrawlabilityAnalyzer scores one of the dicts
ScoreWithNormalized ==
    /\ Len(pfLog) < MaxScorings
    /\ \E i \in 1..Len(pfStore) :
          /\ pfStore[i].kind = "normalized"
          /\ PF_Scored(NCA_ScoreCall(pfStore[i].f), i)

(***************************************************************************)
(* The attempt dicts across a call of _normalize_results or                *)
(* _apply_normalization: Python passes the dicts by reference, so the      *)
(* caller's attempts are what the call leaves of them.                     *)
(***************************************************************************)

\* An attempt of EnvironmentNormalizer with its numeric features in halves
EN_InHalves(a) ==
    [a EXCEPT !.features = [k \in DOMAIN a.features |->
                               IF k \in NumericFeatures THEN 2 * a.features[k]
                               ELSE a.features[k]]]

\* The list attempts after _normalize_results(attempts): base_attempt.copy()
\* copies the outer dict only, so result['features'] is the features dict of
\* the base attempt and update(median_features) writes into it
EN_AttemptsAfter(att, base) ==
    [i \in 1..Len(att) |->
        IF Len(att) > 1 /\ i = base
        THEN [EN_InHalves(att[i]) EXCEPT !.features = EN_NormalizeResults(att, base)]
        ELSE EN_InHalves(att[i])]

\* The value _normalize_results returns: attempts[0] itself, or the copy
EN_ReturnedAttempt(att, base) ==
    IF Len(att) = 1 THEN EN_InHalves(att[1]) ELSE EN_AttemptsAfter(att, base)[base]

\* The keys crawl_result.update({...}) of _apply_normalization sets
CA_NormalizationKeys ==
    {"normalized_load_time", "raw_load_time", "normalization_applied", "features", "strategy"}

\* The dict crawl_result after _apply_normalization(crawl_result), which
\* updates it in place and returns it
CA_AttemptAfter(a) ==
    LET r == CA_ApplyNormalization(a)
    IN  [k \in DOMAIN a \cup CA_NormalizationKeys |->
            CASE k = "normalized_load_time" -> r.normalized_load_time
              [] k = "raw_load_time" -> r.raw_load_time
              [] k = "normalization_applied" -> TRUE
              [] k = "features" -> r.features
              [] k = "strategy" -> r.strategy
              [] OTHER -> a[k]]

\* The successful attempts normalized_crawl has collected
NM_LoadTimes == {500, 900, 5000}

NM_Outcomes ==
    { [status |-> 200, error |-> "none", load_time |-> lt, page |-> p] :
          lt \in NM_LoadTimes, p \in {GoodPage, PoorPage} }

NM_Inputs ==
    { [kind |-> "normalized",
       attempts |-> [i \in 1..Len(o) |-> EN_SingleCrawlAttempt(o[i], i)]] :
          o \in UNION {[1..n -> NM_Outcomes] : n \in 1..EN_Attempts} }
    \cup
    { [kind |-> "crawlability",
       attempts |-> << CA_SingleNormalizedAttempt(o, k, sch) >>] :
          o \in NM_Outcomes, k \in 1..RetryAttempts, sch \in Schemes }

\* EnvironmentNormalizer._normalize_results(attempts) is called and returns
NormalizeResults ==
    /\ nmIn.kind = "normalized"
    /\ ~nmDone
    /\ nmDone' = TRUE
    /\ \E base \in EN_BaseCandidates(nmIn.attempts) :
          /\ nmAfter' = EN_AttemptsAfter(nmIn.attempts, base)
          /\ nmOut' = EN_ReturnedAttempt(nmIn.attempts, base)
          /\ nmSame' = IF Len(nmIn.attempts) = 1 THEN 1 ELSE 0
    /\ UNCHANGED nmIn
    /\ UNCHANGED <<crawlVars, sampleVars, scoreVars, labelVars, smoothVars, aiVars, batchVars, extractVars, purityVars, limitVars, bucketVars>>

\* CrawlabilityAnalyzer._apply_normalization(selected_result) is called and
\* returns
ApplyNormalizationInPlace ==
    /\ nmIn.kind = "crawlability"
    /\ ~nmDone
    /\ nmDone' = TRUE
    /\ nmAfter' = << CA_AttemptAfter(nmIn.attempts[1]) >>
    /\ nmOut' = CA_AttemptAfter(nmIn.attempts[1])
    /\ nmSame' = 1
    /\ UNCHANGED nmIn
    /\ UNCHANGED <<crawlVars, sampleVars, scoreVars, labelVars, smoothVars, aiVars, batchVars, extractVars, purityVars, limitVars, bucketVars>>

(***************************************************************************)
(* The sliding-window RateLimiter (backend/core/rate_limiter.py).  Every   *)
(* method runs under self.lock from its first statement to its return, so  *)
(* a call is one step; the clock is read inside the lock and does not go   *)
(* back.  Times are in seconds.                                            *)
(***************************************************************************)

\* max_requests and window_seconds of the limiter
RL_MaxRequests == 2
RL_Window == 3

\* The client keys, the end of the clock and the most calls of one run
RL_Clients == {"a", "b"}
RL_MaxTime == 5
RL_MaxCalls == 4

\* self.requests[client_ip] of the defaultdict
RL_Deque(requests, client_ip) ==
    IF client_ip \in DOMAIN requests THEN requests[client_ip] ELSE <<>>

\* while client_requests and client_requests[0] <= current_time - window:
\*     client_requests.popleft()
RECURSIVE RL_DropOld(_, _)
RL_DropOld(client_requests, current_time) ==
    IF client_requests # <<>> /\ Head(client_requests) <= current_time - RL_Window
    THEN RL_DropOld(Tail(client_requests), current_time)
    ELSE client_requests

\* len(client_requests) <= self.max_requests
RL_UnderLimitInclusive(client_requests) == Len(client_requests) <= RL_MaxRequests

\* len(client_requests) < self.max_requests
RL_UnderLimit(client_requests) == Len(client_requests) < RL_MaxRequests

\* time.time() moves on
Tick ==
    /\ rlNow < RL_MaxTime
    /\ rlNow' = rlNow + 1
    /\ UNCHANGED <<rlRequests, rlCalls>>
    /\ UNCHANGED <<crawlVars, sampleVars, scoreVars, labelVars, smoothVars, aiVars, batchVars, extractVars, purityVars, frameVars, bucketVars>>

\* allow_request(client_ip): old timestamps are dropped, and the call is
\* answered True and recorded when the client is under the limit
AllowRequest ==
    /\ Len(rlCalls) < RL_MaxCalls
    /\ \E client_ip \in RL_Clients :
          LET kept == RL_DropOld(RL_Deque(rlRequests, client_ip), rlNow)
              allowed == RL_UnderLimit(kept)
          IN  /\ rlRequests' =
                     [c \in DOMAIN rlRequests \cup {client_ip} |->
                         IF c = client_ip
                         THEN IF allowed THEN Append(kept, rlNow) ELSE kept
                         ELSE rlRequests[c]]
              /\ rlCalls' = Append(rlCalls, [client |-> client_ip, time |-> rlNow,
                                             answer |-> allowed])
    /\ UNCHANGED rlNow
    /\ UNCHANGED <<crawlVars, sampleVars, scoreVars, labelVars, smoothVars, aiVars, batchVars, extractVars, purityVars, frameVars, bucketVars>>

\* cleanup_old_entries: old timestamps are dropped from every deque and the
\* keys of empty deques are deleted
CleanupOldEntries ==
    /\ \E c \in DOMAIN rlRequests : RL_DropOld(rlRequests[c], rlNow) # rlRequests[c]
                                    \/ rlRequests[c] = <<>>
    /\ rlRequests' =
           [c \in {k \in DOMAIN rlRequests : RL_DropOld(rlRequests[k], rlNow) # <<>>} |->
               RL_DropOld(rlRequests[c], rlNow)]
    /\ UNCHANGED <<rlNow, rlCalls>>
    /\ UNCHANGED <<crawlVars, sampleVars, scoreVars, labelVars, smoothVars, aiVars, batchVars, extractVars, purityVars, frameVars, bucketVars>>

(***************************************************************************)
(* The token-bucket RateLimiter (core/rate_limiter.py).  is_allowed,       *)
(* get_client_stats and reset_client run under self.lock, so a call is one *)
(* step; time.time() does not go back.  Times are in seconds.  Token       *)
(* counts are fractions in the code: they are kept here in units of        *)
(* 1/3600 token, in which every refill rate is a whole number per second.  *)
(***************************************************************************)

\* the units of one token
TB_Scale == 3600

\* requests_per_minute, requests_per_hour and burst_capacity of the limiter
TB_RequestsPerMinute == 3
TB_RequestsPerHour == 4
TB_BurstCapacity == 2

\* cleanup_interval, and the two cutoffs of _cleanup_if_needed
TB_CleanupInterval == 3600
TB_InactiveAfter == 7200
TB_HistoryKept == 3600

\* The client id, the token counts asked for, the steps of the clock, and
\* the most clock steps and calls of one run
TB_Clients == {"a"}
TB_Tokens == {1, 2}
TB_Steps == {30, 3600}
TB_MaxSteps == 3
TB_MaxCalls == 5

\* The three kinds of bucket: capacity in tokens and refill rate in units
\* per second (requests_per_minute / 60.0, requests_per_hour / 3600.0 and
\* burst_capacity / 10.0 tokens per second)
TB_Kinds == {"minute", "hour", "burst"}
TB_Capacity(bucket_type) ==
    CASE bucket_type = "minute" -> TB_RequestsPerMinute
      [] bucket_type = "hour" -> TB_RequestsPerHour
      [] bucket_type = "burst" -> TB_BurstCapacity
TB_RefillRate(bucket_type) ==
    CASE bucket_type = "minute" -> (TB_RequestsPerMinute * TB_Scale) \div 60
      [] bucket_type = "hour" -> (TB_RequestsPerHour * TB_Scale) \div 3600
      [] bucket_type = "burst" -> (TB_BurstCapacity * TB_Scale) \div 10

\* TokenBucket(capacity, refill_rate): a full bucket
TokenBucket(capacity, refill_rate, now) ==
    [capacity |-> capacity * TB_Scale, tokens |-> capacity * TB_Scale,
     refill_rate |-> refill_rate, last_refill |-> now]

\* TokenBucket._refill
TB_Refill(bucket, now) ==
    [bucket EXCEPT
        !.tokens = Min(bucket.capacity,
                       bucket.tokens + (now - bucket.last_refill) * bucket.refill_rate),
        !.last_refill = now]

\* TokenBucket.consume: the answer and the bucket after it
TB_Consume(bucket, tokens, now) ==
    LET refilled == TB_Refill(bucket, now)
    IN  IF refilled.tokens >= tokens * TB_Scale
        THEN [allowed |-> TRUE,
              bucket |-> [refilled EXCEPT !.tokens = @ - tokens * TB_Scale]]
        ELSE [allowed |-> FALSE, bucket |-> refilled]

\* RateLimiter._get_or_create_bucket on the dict of one kind
TB_GetOrCreateBucket(buckets, client_id, bucket_type, now) ==
    IF client_id \in DOMAIN buckets THEN buckets
    ELSE [c \in DOMAIN buckets \cup {client_id} |->
             IF c = client_id
             THEN TokenBucket(TB_Capacity(bucket_type), TB_RefillRate(bucket_type), now)
             ELSE buckets[c]]

\* dict.pop(client_id, None) for every client of a set
TB_Pop(dict, clients) == [c \in DOMAIN dict \ clients |-> dict[c]]

\* while history and history[0] < history_cutoff: history.popleft()
RECURSIVE TB_DropOld(_, _)
TB_DropOld(client_history, history_cutoff) ==
    IF client_history # <<>> /\ Head(client_history) < history_cutoff
    THEN TB_DropOld(Tail(client_history), history_cutoff)
    ELSE client_history

\* _cleanup_if_needed: whether it runs, the clients it drops, and the
\* request history it leaves
TB_CleanupDue(last_cleanup, now) == now - last_cleanup >= TB_CleanupInterval
TB_InactiveClients(minute_buckets, now) ==
    {c \in DOMAIN minute_buckets : minute_buckets[c].last_refill < now - TB_InactiveAfter}
TB_CleanHistory(request_history, now) ==
    [c \in {k \in DOMAIN request_history :
               TB_DropOld(request_history[k], now - TB_HistoryKept) # <<>>} |->
        TB_DropOld(request_history[c], now - TB_HistoryKept)]

\* the buckets that get their tokens back: only the minute bucket in the
\* branch where the burst bucket refused
TB_RestoredMinuteOnly(minute_allowed, hour_allowed, burst_allowed) ==
    IF minute_allowed /\ ~hour_allowed THEN {"minute"}
    ELSE IF minute_allowed /\ hour_allowed /\ ~burst_allowed THEN {"minute"}
    ELSE {}

\* the buckets that get their tokens back when a limit is exceeded
TB_Restored(minute_allowed, hour_allowed, burst_allowed) ==
    IF minute_allowed /\ ~hour_allowed THEN {"minute"}
    ELSE IF minute_allowed /\ hour_allowed /\ ~burst_allowed THEN {"minute", "hour"}
    ELSE {}

\* bucket.tokens += tokens for a restored bucket, then the _refill of
\* time_until_tokens and get_tokens
TB_AfterCall(bucket, bucket_type, restored, tokens, now) ==
    TB_Refill(IF bucket_type \in restored
              THEN [bucket EXCEPT !.tokens = @ + tokens * TB_Scale]
              ELSE bucket, now)

\* self.request_history[client_id] of the defaultdict
TB_History(request_history, client_id) ==
    IF client_id \in DOMAIN request_history THEN request_history[client_id] ELSE <<>>

\* what a call came to: let through, or refused by the first bucket that
\* lacked the tokens
TB_Outcome(minute_allowed, hour_allowed, burst_allowed) ==
    IF ~minute_allowed THEN "minute"
    ELSE IF ~hour_allowed THEN "hour"
    ELSE IF ~burst_allowed THEN "burst"
    ELSE "allowed"

\* time.time() moves on
TimePasses ==
    /\ tbSteps < TB_MaxSteps
    /\ \E d \in TB_Steps : tbNow' = tbNow + d
    /\ tbSteps' = tbSteps + 1
    /\ UNCHANGED <<tbMinute, tbHour, tbBurst, tbHistory, tbLastCleanup, tbCalls, tbLast, tbSeen>>
    /\ UNCHANGED <<crawlVars, sampleVars, scoreVars, labelVars, smoothVars, aiVars, batchVars, extractVars, purityVars, frameVars, limitVars>>

\* is_allowed(client_id, tokens)
IsAllowed ==
    /\ tbCalls < TB_MaxCalls
    /\ \E client_id \in TB_Clients, tokens \in TB_Tokens :
          LET now == tbNow
              due == TB_CleanupDue(tbLastCleanup, now)
              inactive == IF due THEN TB_InactiveClients(tbMinute, now) ELSE {}
              minute_buckets ==
                  TB_GetOrCreateBucket(TB_Pop(tbMinute, inactive), client_id, "minute", now)
              hour_buckets ==
                  TB_GetOrCreateBucket(TB_Pop(tbHour, inactive), client_id, "hour", now)
              burst_buckets ==
                  TB_GetOrCreateBucket(TB_Pop(tbBurst, inactive), client_id, "burst", now)
              cleaned == IF due THEN TB_CleanHistory(tbHistory, now) ELSE tbHistory
              minute == TB_Consume(minute_buckets[client_id], tokens, now)
              minute_allowed == minute.allowed
              hour == IF minute_allowed
                      THEN TB_Consume(hour_buckets[client_id], tokens, now)
                      ELSE [allowed |-> FALSE, bucket |-> hour_buckets[client_id]]
              hour_allowed == hour.allowed
              burst == IF hour_allowed
                       THEN TB_Consume(burst_buckets[client_id], tokens, now)
                       ELSE [allowed |-> FALSE, bucket |-> burst_buckets[client_id]]
              burst_allowed == burst.allowed
              allowed == minute_allowed /\ hour_allowed /\ burst_allowed
              restored == TB_Restored(minute_allowed, hour_allowed, burst_allowed)
          IN  /\ tbMinute' = [minute_buckets EXCEPT ![client_id] =
                     TB_AfterCall(minute.bucket, "minute", restored, tokens, now)]
              /\ tbHour' = [hour_buckets EXCEPT ![client_id] =
                     TB_AfterCall(hour.bucket, "hour", restored, tokens, now)]
              /\ tbBurst' = [burst_buckets EXCEPT ![client_id] =
                     TB_AfterCall(burst.bucket, "burst", restored, tokens, now)]
              /\ tbHistory' =
                     IF allowed
                     THEN [c \in DOMAIN cleaned \cup {client_id} |->
                              IF c = client_id
                              THEN Append(TB_History(cleaned, client_id), now)
                              ELSE cleaned[c]]
                     ELSE cleaned
              /\ tbLastCleanup' = IF due THEN now ELSE tbLastCleanup
              /\ tbCalls' = tbCalls + 1
              /\ tbLast' =
                     [client |-> client_id, tokens |-> tokens, time |-> now,
                      minute_allowed |-> minute_allowed, hour_allowed |-> hour_allowed,
                      burst_allowed |-> burst_allowed, allowed |-> allowed]
              /\ tbSeen' = tbSeen \cup {TB_Outcome(minute_allowed, hour_allowed,
                                                   burst_allowed)}
    /\ UNCHANGED <<tbNow, tbSteps>>
    /\ UNCHANGED <<crawlVars, sampleVars, scoreVars, labelVars, smoothVars, aiVars, batchVars, extractVars, purityVars, frameVars, limitVars>>

\* get_client_stats(client_id): get_tokens refills the buckets the client has
GetClientStats ==
    /\ \E client_id \in DOMAIN tbMinute :
          /\ tbMinute[client_id].last_refill < tbNow
          /\ tbMinute' = [tbMinute EXCEPT ![client_id] = TB_Refill(@, tbNow)]
          /\ tbHour' = [tbHour EXCEPT ![client_id] = TB_Refill(@, tbNow)]
          /\ tbBurst' = [tbBurst EXCEPT ![client_id] = TB_Refill(@, tbNow)]
    /\ UNCHANGED <<tbNow, tbSteps, tbHistory, tbLastCleanup, tbCalls, tbLast, tbSeen>>
    /\ UNCHANGED <<crawlVars, sampleVars, scoreVars, labelVars, smoothVars, aiVars, batchVars, extractVars, purityVars, frameVars, limitVars>>

\* reset_client(client_id)
ResetClient ==
    /\ \E client_id \in DOMAIN tbMinute \cup DOMAIN tbHistory :
          /\ tbMinute' = TB_Pop(tbMinute, {client_id})
          /\ tbHour' = TB_Pop(tbHour, {client_id})
          /\ tbBurst' = TB_Pop(tbBurst, {client_id})
          /\ tbHistory' = TB_Pop(tbHistory, {client_id})
    /\ UNCHANGED <<tbNow, tbSteps, tbLastCleanup, tbCalls, tbLast, tbSeen>>
    /\ UNCHANGED <<crawlVars, sampleVars, scoreVars, labelVars, smoothVars, aiVars, batchVars, extractVars, purityVars, frameVars, limitVars>>

(***************************************************************************)
(* Specifications                                                          *)
(***************************************************************************)

BatchIdle ==
    /\ bUrls = <<>>
    /\ bPc = "idle"
    /\ bTasks = <<>>
    /\ bResults = <<>>
    /\ bSem = SemaphoreLimit
    /\ bOrder = <<>>
    /\ bOut = <<>>

AIIdle ==
    /\ aiKey = ""
    /\ aiModel = ""
    /\ aiLoaded = FALSE
    /\ aiPc = "idle"
    /\ aiFeatures = AI_EmptyFeatures
    /\ aiRule = NoAIResult
    /\ aiReply = [kind |-> "", complete |-> FALSE, score |-> 0, priority |-> ""]
    /\ aiOut = NoAIResult

SmoothIdle ==
    /\ smRaw = <<0, 0>>
    /\ smOut = <<-1, -1>>

LabelIdle ==
    /\ lbScore = 0
    /\ lbLabels = [l \in Labellers |-> ""]

ExtractIdle ==
    /\ feIn = NoCrawlResult
    /\ feDone = FALSE
    /\ feOut = FE_CreateEmptyFeatures

PurityIdle ==
    /\ pfFirst = <<>>
    /\ pfStore = <<>>
    /\ pfLog = <<>>

FrameIdle ==
    /\ nmIn = [kind |-> "", attempts |-> <<>>]
    /\ nmDone = FALSE
    /\ nmAfter = <<>>
    /\ nmOut = <<>>
    /\ nmSame = 0

LimitIdle ==
    /\ rlNow = 0
    /\ rlRequests = <<>>
    /\ rlCalls = <<>>

\* no call of is_allowed yet
TB_NoCall ==
    [client |-> "", tokens |-> 0, time |-> 0, minute_allowed |-> FALSE,
     hour_allowed |-> FALSE, burst_allowed |-> FALSE, allowed |-> FALSE]

BucketIdle ==
    /\ tbNow = 0
    /\ tbSteps = 0
    /\ tbMinute = <<>>
    /\ tbHour = <<>>
    /\ tbBurst = <<>>
    /\ tbHistory = <<>>
    /\ tbLastCleanup = 0
    /\ tbCalls = 0
    /\ tbLast = TB_NoCall
    /\ tbSeen = {}

OtherIdle ==
    /\ LabelIdle
    /\ SmoothIdle
    /\ AIIdle
    /\ BatchIdle
    /\ ExtractIdle
    /\ PurityIdle
    /\ FrameIdle
    /\ LimitIdle
    /\ BucketIdle

ScoreIdle ==
    /\ fsIn = [kind |-> "", scheme |-> "https", obs |-> <<>>]
    /\ fsOut = NoScore

CrawlIdle ==
    /\ cPc = "idle"
    /\ cUa = 0
    /\ cLog = <<>>
    /\ cResult = NoResult

SampleIdle ==
    /\ sPc = "idle"
    /\ sAttempt = 0
    /\ attempts = <<>>
    /\ history = <<>>
    /\ sLog = <<>>
    /\ sReqs = <<>>
    /\ inFlight = 0
    /\ cancelReq = FALSE
    /\ crawlOut = NoCrawl
    /\ analysis = NoAnalysis

\* One call of WebCrawler.crawl_website
InitCrawl ==
    /\ cUrl \in Schemes
    /\ CrawlIdle
    /\ analyzer = "crawlability"
    /\ sUrl = "https"
    /\ SampleIdle
    /\ fsIn = [kind |-> "", scheme |-> "https", obs |-> <<>>]
    /\ fsOut = NoScore
    /\ OtherIdle

NextCrawl ==
    \/ CrawlWebsite
    \/ StandardStrategy
    \/ HttpFallbackStrategy
    \/ UserAgentStrategy
    \/ MinimalStrategy
    \/ HeadStrategy

SpecCrawl == InitCrawl /\ [][NextCrawl]_vars

\* One call of analyze() of either analyzer, in a task that may be cancelled
InitSample ==
    /\ cUrl = "https"
    /\ CrawlIdle
    /\ analyzer \in {"crawlability", "normalized"}
    /\ sUrl \in Schemes
    /\ SampleIdle
    /\ fsIn = [kind |-> "", scheme |-> "https", obs |-> <<>>]
    /\ fsOut = NoScore
    /\ OtherIdle

NextSample ==
    \/ Analyze
    \/ WakeUp
    \/ AttemptEnds
    \/ Cancel
    \/ CancelDelivered

SpecSample == InitSample /\ [][NextSample]_vars

\* The score of one feature set
InitScore ==
    /\ cUrl = "https"
    /\ CrawlIdle
    /\ analyzer = "crawlability"
    /\ sUrl = "https"
    /\ SampleIdle
    /\ fsIn \in ScoreInputs
    /\ fsOut = NoScore
    /\ OtherIdle

NextScore ==
    \/ ScoreCrawlability
    \/ ScoreNormalized

SpecScore == InitScore /\ [][NextScore]_vars

\* One overall score, labelled by each labeller
InitLabel ==
    /\ cUrl = "https"
    /\ CrawlIdle
    /\ analyzer = "crawlability"
    /\ sUrl = "https"
    /\ SampleIdle
    /\ ScoreIdle
    /\ lbScore \in 0..MaxScore
    /\ lbLabels = [l \in Labellers |-> ""]
    /\ SmoothIdle
    /\ AIIdle
    /\ BatchIdle
    /\ ExtractIdle
    /\ PurityIdle
    /\ FrameIdle
    /\ LimitIdle
    /\ BucketIdle

NextLabel ==
    \/ ExplainCrawlability
    \/ ExplainNormalized
    \/ DetermineLabel

SpecLabel == InitLabel /\ [][NextLabel]_vars

\* Two crawl results and their smoothed load times
InitSmooth ==
    /\ cUrl = "https"
    /\ CrawlIdle
    /\ analyzer = "crawlability"
    /\ sUrl = "https"
    /\ SampleIdle
    /\ ScoreIdle
    /\ LabelIdle
    /\ smRaw \in RawLoadTimes \X RawLoadTimes
    /\ smOut = <<-1, -1>>
    /\ AIIdle
    /\ BatchIdle
    /\ ExtractIdle
    /\ PurityIdle
    /\ FrameIdle
    /\ LimitIdle
    /\ BucketIdle

NextSmooth ==
    \/ ApplyNormalization

SpecSmooth == InitSmooth /\ [][NextSmooth]_vars

\* One AIAnalyzer and one call of analyze_crawlability
InitAI ==
    /\ cUrl = "https"
    /\ CrawlIdle
    /\ analyzer = "crawlability"
    /\ sUrl = "https"
    /\ SampleIdle
    /\ ScoreIdle
    /\ LabelIdle
    /\ SmoothIdle
    /\ aiKey \in AI_ApiKeys
    /\ aiModel = ""
    /\ aiLoaded = FALSE
    /\ aiPc = "idle"
    /\ aiFeatures \in AI_FeatureSets
    /\ aiRule = NoAIResult
    /\ aiReply = [kind |-> "", complete |-> FALSE, score |-> 0, priority |-> ""]
    /\ aiOut = NoAIResult
    /\ BatchIdle
    /\ ExtractIdle
    /\ PurityIdle
    /\ FrameIdle
    /\ LimitIdle
    /\ BucketIdle

NextAI ==
    \/ LoadModel
    \/ AnalyzeCrawlability
    \/ EnrichmentEnds

SpecAI == InitAI /\ [][NextAI]_vars

\* One call of batch_validate_urls
InitBatch ==
    /\ cUrl = "https"
    /\ CrawlIdle
    /\ analyzer = "crawlability"
    /\ sUrl = "https"
    /\ SampleIdle
    /\ ScoreIdle
    /\ LabelIdle
    /\ SmoothIdle
    /\ AIIdle
    /\ bUrls \in BatchInputs
    /\ bPc = "idle"
    /\ bTasks = <<>>
    /\ bResults = <<>>
    /\ bSem = SemaphoreLimit
    /\ bOrder = <<>>
    /\ bOut = <<>>
    /\ ExtractIdle
    /\ PurityIdle
    /\ FrameIdle
    /\ LimitIdle
    /\ BucketIdle

NextBatch ==
    \/ BatchValidateUrls
    \/ TaskStarts
    \/ TaskEnds
    \/ GatherReturns

SpecBatch == InitBatch /\ [][NextBatch]_vars

\* The event loop runs every task that can run, and every request ends
\* (aiohttp.ClientTimeout(total=15) in _check_url_accessibility)
SpecBatchFair ==
    /\ InitBatch
    /\ [][NextBatch]_vars
    /\ WF_vars(TaskStarts)
    /\ WF_vars(TaskEnds)
    /\ WF_vars(GatherReturns)

\* One call of FeatureExtractor.extract_features
InitExtract ==
    /\ cUrl = "https"
    /\ CrawlIdle
    /\ analyzer = "crawlability"
    /\ sUrl = "https"
    /\ SampleIdle
    /\ ScoreIdle
    /\ LabelIdle
    /\ SmoothIdle
    /\ AIIdle
    /\ BatchIdle
    /\ feIn \in FE_CrawlResults
    /\ feDone = FALSE
    /\ feOut = FE_CreateEmptyFeatures
    /\ PurityIdle
    /\ FrameIdle
    /\ LimitIdle
    /\ BucketIdle

NextExtract ==
    \/ ExtractFeatures

SpecExtract == InitExtract /\ [][NextExtract]_vars

\* Two feature dicts and up to MaxScorings scoring calls on them, in any
\* order
InitPurity ==
    /\ cUrl = "https"
    /\ CrawlIdle
    /\ analyzer = "crawlability"
    /\ sUrl = "https"
    /\ SampleIdle
    /\ ScoreIdle
    /\ LabelIdle
    /\ SmoothIdle
    /\ AIIdle
    /\ BatchIdle
    /\ ExtractIdle
    /\ pfFirst \in [1..2 -> PF_FeatureSets]
    /\ pfStore = pfFirst
    /\ pfLog = <<>>
    /\ FrameIdle
    /\ LimitIdle
    /\ BucketIdle

NextPurity ==
    \/ ScoreWithCrawlability
    \/ ScoreWithNormalized

SpecPurity == InitPurity /\ [][NextPurity]_vars

\* A list of collected attempts and one normalizing call on it
InitFrame ==
    /\ cUrl = "https"
    /\ CrawlIdle
    /\ analyzer = "crawlability"
    /\ sUrl = "https"
    /\ SampleIdle
    /\ ScoreIdle
    /\ LabelIdle
    /\ SmoothIdle
    /\ AIIdle
    /\ BatchIdle
    /\ ExtractIdle
    /\ PurityIdle
    /\ nmIn \in NM_Inputs
    /\ nmDone = FALSE
    /\ nmAfter = <<>>
    /\ nmOut = <<>>
    /\ nmSame = 0
    /\ LimitIdle
    /\ BucketIdle

NextFrame ==
    \/ NormalizeResults
    \/ ApplyNormalizationInPlace

SpecFrame == InitFrame /\ [][NextFrame]_vars

\* One RateLimiter, its callers and the clock
InitLimit ==
    /\ cUrl = "https"
    /\ CrawlIdle
    /\ analyzer = "crawlability"
    /\ sUrl = "https"
    /\ SampleIdle
    /\ ScoreIdle
    /\ LabelIdle
    /\ SmoothIdle
    /\ AIIdle
    /\ BatchIdle
    /\ ExtractIdle
    /\ PurityIdle
    /\ FrameIdle
    /\ rlNow = 0
    /\ rlRequests = <<>>
    /\ rlCalls = <<>>
    /\ BucketIdle

NextLimit ==
    \/ Tick
    \/ AllowRequest
    \/ CleanupOldEntries

SpecLimit == InitLimit /\ [][NextLimit]_vars

\* One token-bucket RateLimiter, its callers and the clock
InitBucket ==
    /\ cUrl = "https"
    /\ CrawlIdle
    /\ analyzer = "crawlability"
    /\ sUrl = "https"
    /\ SampleIdle
    /\ ScoreIdle
    /\ LabelIdle
    /\ SmoothIdle
    /\ AIIdle
    /\ BatchIdle
    /\ ExtractIdle
    /\ PurityIdle
    /\ FrameIdle
    /\ LimitIdle
    /\ tbNow = 0
    /\ tbSteps = 0
    /\ tbMinute = <<>>
    /\ tbHour = <<>>
    /\ tbBurst = <<>>
    /\ tbHistory = <<>>
    /\ tbLastCleanup = 0
    /\ tbCalls = 0
    /\ tbLast = TB_NoCall
    /\ tbSeen = {}

NextBucket ==
    \/ TimePasses
    \/ IsAllowed
    \/ GetClientStats
    \/ ResetClient

SpecBucket == InitBucket /\ [][NextBucket]_vars

(***************************************************************************)
(* Properties of WebCrawler.crawl_website (SpecCrawl)                      *)
(***************************************************************************)

\* What a request of the log asked for
Config(r) == <<r.method, r.scheme, r.headers, r.agent>>

\* Whether the strategy that issued request r reported success
Succeeded(r) == r.status = 200 /\ (r.method = "HEAD" \/ r.decodes)

\* The requests of a chain that runs to its end on a url of scheme u
ExpectedOrder(u) ==
    << <<"GET", u, "full", 0>> >>
    \o (IF u = "https" THEN << <<"GET", "http", "full", 0>> >> ELSE <<>>)
    \o << <<"GET", u, "user_agent", 0>>, <<"GET", u, "user_agent", 1>>,
          <<"GET", u, "user_agent", 2>>, <<"GET", u, "user_agent", 3>>,
          <<"GET", u, "user_agent", 4>>,
          <<"GET", u, "none", -1>>, <<"HEAD", u, "none", -1>> >>

ExpectedNames(u) ==
    << "standard" >>
    \o (IF u = "https" THEN << "http_fallback" >> ELSE <<>>)
    \o << "user_agent_0", "user_agent_1", "user_agent_2", "user_agent_3", "user_agent_4",
          "minimal", "head_only" >>

\* C1: once a strategy of the chain has received an HTTP 200 response, no
\* request of a later strategy is issued: a request answered with 200 is the
\* last request of the log.
C1_NoRequestAfter200 ==
    \A k \in 1..Len(cLog) : cLog[k].status = 200 => k = Len(cLog)

C6_FixedOrder ==
    /\ Len(cLog) <= Len(ExpectedOrder(cUrl))
    /\ \A k \in 1..Len(cLog) : Config(cLog[k]) = ExpectedOrder(cUrl)[k]
    /\ cResult.success
          => /\ Succeeded(cLog[Len(cLog)])
             /\ cResult.strategy = ExpectedNames(cUrl)[Len(cLog)]

\* the HEAD probe of an https url succeeded after all the GET requests failed
C6_Witness ==
    /\ cUrl = "https"
    /\ cResult.success
    /\ cResult.strategy = "head_only"
    /\ Len(cLog) = NumUserAgents + 4

(***************************************************************************)
(* Properties of the samplers and of analyze() (SpecSample)                *)
(***************************************************************************)

CountOf(log, e) == Len(SelectSeq(log, LAMBDA x : x = e))

\* The attempts of the run that ended with HTTP 200 and without an exception
Ended200 ==
    {history[k].attempt : k \in {j \in 1..Len(history) :
                                    history[j].status = 200 /\ history[j].error = "none"}}

\* The attempts normalized_crawl has collected for selection
Collected == {attempts[i].attempt : i \in 1..Len(attempts)}

\* The collected attempt the returned result is based on
BaseAttempt == CHOOSE a \in {attempts[i] : i \in 1..Len(attempts)} : a.attempt = crawlOut.base

\* The index (from 0) of attempt a among the collected attempts sorted by
\* load time, attempts of equal load time in the order they were made
Rank(a) ==
    Cardinality({i \in 1..Len(attempts) :
                    \/ attempts[i].load_time < a.load_time
                    \/ (attempts[i].load_time = a.load_time /\ attempts[i].attempt < a.attempt)})

\* The load times of the collected attempts in the order the attempts were made
LoadTimesInOrder == {<<attempts[i].attempt, attempts[i].load_time>> : i \in 1..Len(attempts)}

\* C2: when every fetch of a url returns HTTP 403, analyze() returns a
\* result with score 0 and exactly one recommendation, of category "Error"
\* and priority "high", in both analyzers.
C2_AllForbiddenIsFailure ==
    (/\ sPc = "done"
     /\ Len(history) = AttemptCount(analyzer)
     /\ \A k \in 1..Len(history) : history[k].status = 403 /\ history[k].error = "none")
        => /\ analysis.returned
           /\ analysis.score = 0
           /\ Len(analysis.recommendations) = 1
           /\ analysis.recommendations[1].category = "Error"
           /\ analysis.recommendations[1].priority = "high"

\* C3 as stated: with two or more successful attempts the base is the
\* attempt at the lower-median index of the attempts sorted by load time
\* (index 0 of 2, index 1 of 3).
C3_LowerMedianBase ==
    (sPc = "done" /\ Len(attempts) >= 2)
        => Rank(BaseAttempt) = (Len(attempts) - 1) \div 2

\* C3 amended: with two or more successful attempts,
\* CrawlabilityAnalyzer.normalized_crawl takes as base the attempt at index
\* len // 2 of the attempts sorted by load time, the upper median of an even
\* count (index 1 of 2, index 1 of 3); EnvironmentNormalizer takes an
\* attempt whose load time, capped at 5 s, is nearest to the median of the
\* capped load times; for the load times [0.5, 5.0, 0.9] the base is the
\* attempt with load time 0.9 in both.
C3_MedianBase ==
    (sPc = "done" /\ Len(attempts) >= 2)
        => /\ analyzer = "crawlability" => Rank(BaseAttempt) = Len(attempts) \div 2
           /\ analyzer = "normalized" =>
                 LET capped == [i \in 1..Len(attempts) |-> Min(attempts[i].load_time, 5000)]
                     gap(x) == Abs(2 * Min(x, 5000) - Median2(capped))
                 IN  \A i \in 1..Len(attempts) :
                        gap(BaseAttempt.load_time) <= gap(attempts[i].load_time)
           /\ LoadTimesInOrder = {<<1, 500>>, <<2, 5000>>, <<3, 900>>}
                 => BaseAttempt.load_time = 900

\* CrawlabilityAnalyzer collected two attempts of different load times and
\* based its result on the slower one
C3_Witness ==
    /\ sPc = "done"
    /\ analyzer = "crawlability"
    /\ Len(attempts) = 2
    /\ attempts[1].load_time < attempts[2].load_time
    /\ crawlOut.base = attempts[2].attempt

\* C4: the attempts collected for selection are exactly the attempts that
\* ended with HTTP 200 and no exception or timeout, and when there is none
\* after the last attempt, normalized_crawl returns success=false and no
\* features.
C4_CollectsOnly200 ==
    /\ Collected = Ended200
    /\ (sPc = "done" /\ Ended200 = {})
          => (~crawlOut.success /\ crawlOut.features = NoFeatures)

RequestsOf(a) == SelectSeq(sReqs, LAMBDA r : r.attempt = a)

Failed(a) == (\E k \in 1..Len(history) : history[k].attempt = a) /\ a \notin Collected

C8_SequentialAttempts ==
    analyzer = "crawlability" =>
        /\ CountOf(sLog, "start") <= RetryAttempts
        /\ inFlight <= 1
        /\ \A i \in 1..Len(sLog) :
              /\ sLog[i] = "start" =>
                    \/ i = 1
                    \/ (i >= 3 /\ sLog[i - 1] = "sleep" /\ sLog[i - 2] = "end")
              /\ sLog[i] = "sleep" => (i >= 2 /\ sLog[i - 1] = "end")
              /\ (sLog[i] = "end" /\ i < Len(sLog)) => sLog[i + 1] = "sleep"

\* a full run of CrawlabilityAnalyzer: three attempts, two sleeps
C8_Witness ==
    /\ analyzer = "crawlability"
    /\ sPc = "done"
    /\ CountOf(sLog, "start") = 3
    /\ CountOf(sLog, "sleep") = 2

\* C9: a cancellation delivered during an attempt or during the sleep
\* between attempts ends the attempt loop: nothing of the task happens
\* after it (no attempt starts, no sleep), the attempt in flight is
\* not recorded as one more failed attempt, and analyze() is left by the
\* CancelledError.
C9_CancelEndsLoop ==
    \A i \in 1..Len(sLog) :
        sLog[i] = "cancelled" =>
            /\ i = Len(sLog)
            /\ sPc = "cancelled"
            /\ inFlight = 0
            /\ analysis.raised
            /\ Len(history) = CountOf(sLog, "end")

\* the task was cancelled in the sleep after its first attempt
C9_Witness ==
    /\ sPc = "cancelled"
    /\ Len(sLog) = 4
    /\ sLog[3] = "sleep"
    /\ sLog[4] = "cancelled"

(***************************************************************************)
(* Properties of the scoring functions (SpecScore)                         *)
(***************************************************************************)

\* C10: for every feature set the analyzers produce, the overall score is
\* within 0..100, the content score is at most 35, the technical score at
\* most 40, the performance score at most 25, and the overall score is the
\* sum of the three capped category scores, truncated to an integer.
C10_ScoreBounds ==
    fsOut.scored =>
        /\ 0 <= fsOut.overall /\ fsOut.overall <= 100
        /\ 0 <= fsOut.content2 /\ fsOut.content2 <= 2 * 35
        /\ 0 <= fsOut.technical2 /\ fsOut.technical2 <= 2 * 40
        /\ 0 <= fsOut.performance /\ fsOut.performance <= 25
        /\ fsOut.overall = (fsOut.content2 + fsOut.technical2 + 2 * fsOut.performance) \div 2

\* a page of CrawlabilityAnalyzer whose performance score sits at its cap
\* and whose category scores add up to 90
C10_Witness ==
    /\ fsOut.scored
    /\ fsOut.kind = "crawlability"
    /\ fsOut.performance = 25
    /\ fsOut.features.load_time_score = 40
    /\ fsOut.overall = 90

\* The page of the end-to-end scenario: title of 45 characters, description
\* of 140, one h1, a viewport, HTTPS, 0.8 s of load time, a body of 40 KB,
\* seen in one attempt
ScenarioPage ==
    /\ Len(fsIn.obs) = 1
    /\ fsIn.scheme = "https"
    /\ fsIn.obs[1].load_time = 800
    /\ fsIn.obs[1].page.title_len = 45
    /\ fsIn.obs[1].page.desc_len = 140
    /\ fsIn.obs[1].page.h1 = 1
    /\ fsIn.obs[1].page.viewport
    /\ fsIn.obs[1].page.size = 40960

\* C11: the page of the scenario gets a content score of at least 30, a
\* technical score of at least 35, a performance score of at least 22, an
\* overall score of at least 90 and the label "Excellent".
C11_ExcellentScenario ==
    (fsOut.scored /\ ScenarioPage) =>
        /\ fsOut.content2 >= 2 * 30
        /\ fsOut.technical2 >= 2 * 35
        /\ fsOut.performance >= 22
        /\ fsOut.overall >= 90
        /\ fsOut.result.returned
        /\ fsOut.result.explanation = "Excellent"

\* C12: the technical score is the sum, capped at 40, of 15 for HTTPS, 10
\* for a viewport, 5 for a canonical link, a credit for exactly one h1 and a
\* credit that grows with the alt-text ratio: below the cap it is never less
\* than the first three credits, it exceeds them on a page with exactly one
\* h1, and a canonical link is worth 5.
C12_TechnicalComposition ==
    (fsOut.scored /\ Len(fsIn.obs) = 1) =>
        LET page == fsIn.obs[1].page
            fixed == (IF fsIn.scheme = "https" THEN 15 ELSE 0)
                     + (IF page.viewport THEN 10 ELSE 0)
                     + (IF page.canonical THEN 5 ELSE 0)
        IN  /\ fsOut.technical2 <= 2 * 40
            /\ fsOut.technical2 < 2 * 40 =>
                  /\ fsOut.technical2 >= 2 * fixed
                  /\ page.h1 = 1 => fsOut.technical2 > 2 * fixed

\* The recommendations the rules of the analyzer produce for the scored
\* features, in rule-evaluation order
FiredRules ==
    IF fsOut.kind = "crawlability"
    THEN LET calls == CA_RecommendationCalls(fsOut.features)
         IN  [i \in 1..Len(calls) |-> Rec(calls[i].category, calls[i].title, calls[i].priority)]
    ELSE NCA_Rules(fsOut.features)

MaxRecommendations == IF fsOut.kind = "crawlability" THEN 6 ELSE 8

IndexIn(seq, r) == CHOOSE k \in 1..Len(seq) : seq[k] = r

Elements(seq) == {seq[k] : k \in 1..Len(seq)}

\* C13: the request gets a recommendation list, sorted by priority, with
\* recommendations of equal priority in rule-evaluation order, truncated to
\* 8 (NormalizedCrawlabilityAnalyzer) or 6 (CrawlabilityAnalyzer), and no
\* dropped recommendation has a higher priority than a retained one.
C13_SortedThenTruncated ==
    fsOut.scored =>
        LET recs == fsOut.result.recommendations
            fired == FiredRules
        IN  /\ fsOut.result.returned
            /\ Elements(recs) \subseteq Elements(fired)
            /\ Len(recs) = Min(Len(fired), MaxRecommendations)
            /\ \A i, j \in 1..Len(recs) :
                  i < j =>
                     /\ PriorityOrder(recs[i].priority) <= PriorityOrder(recs[j].priority)
                     /\ recs[i].priority = recs[j].priority =>
                           IndexIn(fired, recs[i]) < IndexIn(fired, recs[j])
            /\ \A d \in Elements(fired) \ Elements(recs) :
                  \A r \in Elements(recs) :
                      PriorityOrder(d.priority) >= PriorityOrder(r.priority)

\* Every attempt saw a page with two h1 elements and no meta description
TwoH1NoDescription ==
    /\ Len(fsIn.obs) >= 1
    /\ \A i \in 1..Len(fsIn.obs) :
          /\ fsIn.obs[i].page.h1 = 2
          /\ fsIn.obs[i].page.desc_len = 0
          /\ fsIn.obs[i].page.og_desc_len = 0

\* C14: for a page with two h1 elements and no meta description the returned
\* list holds "Add Meta Description" with priority high and "Use Single H1
\* Tag" with priority low or medium, the former before the latter.
C14_TwoH1NoDescription ==
    (fsOut.scored /\ TwoH1NoDescription) =>
        LET recs == fsOut.result.recommendations
        IN  /\ fsOut.result.returned
            /\ \E i, j \in 1..Len(recs) :
                  /\ i < j
                  /\ recs[i].title = "Add Meta Description"
                  /\ recs[i].priority = "high"
                  /\ recs[j].title = "Use Single H1 Tag"
                  /\ recs[j].priority \in {"low", "medium"}

\* The scored feature set with a title of 45 characters in place of the
\* absent one, all else equal
TitlePresentTwin ==
    [fsOut.features EXCEPT !.title_present = TRUE, !.title_length = 2 * 45]

AddPageTitle == Rec("SEO", "Add Page Title", "high")

\* C15 as stated: the list of a feature set without title holds the
\* missing-title recommendation and every recommendation of the list of the
\* same feature set with a title in range.
C15_StrictSuperset ==
    (fsOut.scored /\ fsOut.kind = "normalized" /\ ~fsOut.features.title_present) =>
        LET absent == Elements(fsOut.result.recommendations)
            present == Elements(NCA_GenerateNormalizedRecommendations(TitlePresentTwin))
        IN  /\ AddPageTitle \in absent
            /\ AddPageTitle \notin present
            /\ present \subseteq absent

\* C15: the list of a feature set without title holds the missing-title
\* recommendation; while at most 8 rules fire it is the list of the same
\* feature set with a title in range plus that recommendation; when 9 rules
\* fire the truncation to 8 drops "Improve Internal Linking", which the list
\* of the feature set with a title keeps.
C15_SupersetUnlessTruncated ==
    (fsOut.scored /\ fsOut.kind = "normalized" /\ ~fsOut.features.title_present) =>
        LET absent == Elements(fsOut.result.recommendations)
            present == Elements(NCA_GenerateNormalizedRecommendations(TitlePresentTwin))
            fired == Len(NCA_Rules(fsOut.features))
        IN  /\ AddPageTitle \in absent
            /\ AddPageTitle \notin present
            /\ fired <= 8 => absent = present \cup {AddPageTitle}
            /\ fired > 8 =>
                  /\ present \ absent = {Rec("SEO", "Improve Internal Linking", "low")}
                  /\ absent \ present = {AddPageTitle}

\* a feature set without title and without meta description for which five
\* rules fire
C15_Witness ==
    /\ fsOut.scored
    /\ fsOut.kind = "normalized"
    /\ ~fsOut.features.title_present
    /\ ~fsOut.features.meta_description_present
    /\ Len(fsOut.result.recommendations) = 5
    /\ Len(NCA_GenerateNormalizedRecommendations(TitlePresentTwin)) = 4

(***************************************************************************)
(* Properties of the labellers (SpecLabel)                                 *)
(***************************************************************************)

\* C16: one threshold table labels the overall score: a score of 90 or more
\* is "Excellent" and a score below 60 is "Poor" for every labeller, and
\* all labellers give the same label to the same score.
C16_OneLabelTable ==
    (\A l \in Labellers : lbLabels[l] # "") =>
        /\ lbScore >= 90 => \A l \in Labellers : lbLabels[l] = "Excellent"
        /\ lbScore < 60 => \A l \in Labellers : lbLabels[l] = "Poor"
        /\ \A l, m \in Labellers : lbLabels[l] = lbLabels[m]

(***************************************************************************)
(* Properties of the load-time smoothing (SpecSmooth)                      *)
(***************************************************************************)

\* C17: with c = min(t, 15 s) the smoothed load time is c up to 1.0 s,
\* 1.0 + 0.8 (c - 1.0) up to 3.0 s and 2.6 + 0.5 (c - 3.0) above; at 1.0 s
\* and at 3.0 s the formulas of both sides give the same value (1.0 and
\* 2.6), and the smoothed time never decreases when t grows.
C17_SmoothingTransform ==
    /\ \A k \in 1..2 :
          smOut[k] # -1 =>
              LET c == Min(smRaw[k], 15000)
              IN  /\ c <= 1000 => smOut[k] = c
                  /\ (1000 < c /\ c <= 3000) => 10 * (smOut[k] - 1000) = 8 * (c - 1000)
                  /\ c > 3000 => 10 * (smOut[k] - 2600) = 5 * (c - 3000)
                  /\ c = 1000 => 10 * (smOut[k] - 1000) = 8 * (c - 1000)
                  /\ c = 3000 => 10 * (smOut[k] - 2600) = 5 * (c - 3000)
    /\ (smOut[1] # -1 /\ smOut[2] # -1 /\ smRaw[1] <= smRaw[2]) => smOut[1] <= smOut[2]

\* the breakpoint at 3.0 s and a time above the ceiling of 15 s
C17_Witness ==
    /\ smRaw = <<3000, 20000>>
    /\ smOut = <<2600, 8600>>

(***************************************************************************)
(* Properties of the samplers with one collected attempt (SpecSample)      *)
(***************************************************************************)

EnrichmentSucceeded ==
    /\ aiKey # ""
    /\ aiModel # ""
    /\ aiReply.kind = "object"
    /\ \/ ~aiReply.complete
       \/ aiReply.score <= 1000 * MaxScore
    /\ aiReply.priority \in PriorityLevel \cup {""}

\* C19: analyze_crawlability returns the rule-based result, tagged
\* "rule_based", unchanged when there is no key or no model or when the
\* enrichment failed, and a result tagged "ai_enhanced" only when the
\* enrichment succeeded.
C19_RuleBasedUnlessEnriched ==
    aiPc = "done" =>
        /\ aiRule = AI_RuleBasedAnalysis(aiFeatures)
        /\ aiRule.analysis_method = "rule_based"
        /\ ~EnrichmentSucceeded => aiOut = aiRule
        /\ aiOut.analysis_method = "ai_enhanced" => EnrichmentSucceeded
        /\ EnrichmentSucceeded =>
              /\ aiOut.analysis_method = "ai_enhanced"
              /\ aiOut.category_scores = aiRule.category_scores

\* the model answered with a score of 150: the rule-based result comes back
C19_Witness ==
    /\ aiPc = "done"
    /\ aiModel # ""
    /\ aiReply.kind = "object"
    /\ aiReply.complete
    /\ aiReply.score = 150000
    /\ aiOut = aiRule
    /\ aiOut.analysis_method = "rule_based"
    /\ Len(aiOut.recommendations) >= 2

(***************************************************************************)
(* Properties of URLValidator.batch_validate_urls (SpecBatch)              *)
(***************************************************************************)

\* C20: a URL that fails never cancels or changes the task of another URL:
\* no task is ever cancelled, the batch returns one result per URL at the
\* index of the URL, and every result is the one validate_url gives for
\* that URL alone.
C20_IsolatedFailures ==
    /\ \A i \in 1..Len(bTasks) : bTasks[i] \in {"waiting", "checking", "done"}
    /\ \A i \in 1..Len(bTasks) : bTasks[i] = "done" => bResults[i] = Returned(ValidateUrl(bUrls[i]))
    /\ bPc = "done" =>
          /\ Len(bOut) = Len(bUrls)
          /\ \A i \in 1..Len(bUrls) : bOut[i] = ValidateUrl(bUrls[i])

\* a batch of three whose second URL was rejected and whose third, a good
\* one, completed before the first
C20_Witness ==
    /\ bPc = "done"
    /\ bUrls = <<"good", "malformed", "good">>
    /\ bOrder = <<2, 3, 1>>
    /\ bOut[1].is_valid
    /\ ~bOut[2].is_valid
    /\ bOut[3].is_valid

\* the tasks inside `async with semaphore`
InsideSemaphore == {i \in DOMAIN bTasks : bTasks[i] = "checking"}

\* the longest batch of BatchInputs
LongestBatch == SemaphoreLimit + 2

\* C21: at every moment of a batch at most 5 tasks are inside the section
\* guarded by the semaphore, whatever the number of URLs and the
\* interleaving, and every task that waits for the semaphore gets in.
C21_BoundedGate ==
    /\ [](/\ Cardinality(InsideSemaphore) <= SemaphoreLimit
          /\ bSem = SemaphoreLimit - Cardinality(InsideSemaphore))
    /\ \A i \in 1..LongestBatch :
          (i \in DOMAIN bTasks /\ bTasks[i] = "waiting")
              ~> (i \in DOMAIN bTasks /\ bTasks[i] = "done")

\* five tasks hold the semaphore while a sixth one waits for it
C21_Witness ==
    /\ bPc = "gathering"
    /\ Cardinality(InsideSemaphore) = SemaphoreLimit
    /\ bSem = 0
    /\ \E i \in DOMAIN bTasks : bTasks[i] = "waiting"

(***************************************************************************)
(* Properties of WebCrawler.crawl_website in time (SpecCrawl)              *)
(***************************************************************************)

\* time.time() - start_time when the k-th request of the log was started
StartedAt(log, k) == Elapsed(SubSeq(log, 1, k - 1))

\* The deadlines that could stop a strategy of the longest chain, which has
\* NumUserAgents + 4 requests: a later deadline never acts
Deadlines == {RequestTimeout * n : n \in 1..(NumUserAgents + 3)}

\* C22: an overall deadline bounds one run of the strategy chain: no
\* strategy is started once the deadline has passed, and a run cut short by
\* the deadline returns the standard failure result.
C22_OverallDeadline ==
    \E deadline \in Deadlines :
        /\ \A k \in 1..Len(cLog) : StartedAt(cLog, k) < deadline
        /\ (cPc = "done" /\ Elapsed(cLog) >= deadline) => ~cResult.success

(***************************************************************************)
(* Properties of FeatureExtractor.extract_features (SpecExtract)           *)
(***************************************************************************)

\* every count 0 and every flag false
AllZero(features) ==
    /\ features.status_code = 0
    /\ features.html_size = 0
    /\ features.word_count = 0
    /\ features.title_length = 0
    /\ features.meta_description_length = 0
    /\ features.h1_count = 0
    /\ features.internal_links_count = 0
    /\ features.external_links_count = 0
    /\ features.images_count = 0
    /\ features.images_with_alt_count = 0
    /\ features.external_scripts_count = 0
    /\ features.inline_css_count = 0
    /\ features.inline_js_count = 0
    /\ ~features.https_enabled
    /\ ~features.ssl_certificate_valid
    /\ ~features.title_tag_present
    /\ ~features.meta_description_present
    /\ ~features.canonical_tag_present
    /\ ~features.structured_data_present
    /\ ~features.viewport_configured

\* the crawl failed, or something raised while the body was taken apart
ExtractionFailed(crawl_result) ==
    \/ ~crawl_result.success
    \/ ~crawl_result.has_url
    \/ crawl_result.body.page.links.malformed > 0

\* C23: extract_features never raises; it returns features for every crawl
\* result, and after a failed crawl or a failure while parsing the body the
\* returned features have every count 0 and every flag false.
C23_AllZeroOnFailure ==
    (feDone /\ ExtractionFailed(feIn)) => AllZero(feOut)

\* The classification of the anchors of a page: an href starting with #,
\* javascript:, mailto: or tel: is in neither count; any other href is
\* internal when it resolves to the host of the page or is root-relative,
\* external otherwise
ClassifiedLinks(l) ==
    [internal |-> l.same_host + l.root_relative + l.relative + l.empty,
     external |-> l.other_host + l.malformed]

\* C24: every extractor classifies the anchors of a page in the same way:
\* FeatureExtractor, CrawlabilityAnalyzer and EnvironmentNormalizer all count
\* the internal and the external links as ClassifiedLinks does.
C24_SameClassification ==
    (feDone /\ feIn.success /\ feIn.has_url) =>
        LET l == feIn.body.page.links
            ca == CA_ExtractNormalizedFeatures(feIn.body.page, feIn.scheme, 800)
            en == EN_ExtractNormalizedFeatures(feIn.body.page, 800)
        IN  /\ feOut.internal_links_count = ClassifiedLinks(l).internal
            /\ feOut.external_links_count = ClassifiedLinks(l).external
            /\ ca.internal_links_count = ClassifiedLinks(l).internal
            /\ ca.external_links_count = ClassifiedLinks(l).external
            /\ en.internal_links_count = ClassifiedLinks(l).internal

(***************************************************************************)
(* Properties of the scoring functions as calls (SpecPurity)               *)
(***************************************************************************)

AttemptBefore(i) ==
    IF nmIn.kind = "normalized" THEN EN_InHalves(nmIn.attempts[i]) ELSE nmIn.attempts[i]

\* C26: normalizing never changes a collected attempt: after
\* _normalize_results and after _apply_normalization every field of every
\* input attempt, its features and load time included, has the value it
\* had before the call, and the returned dict is not one of the attempts.
C26_AttemptsUnchanged ==
    nmDone =>
        /\ \A i \in 1..Len(nmIn.attempts) :
              \A k \in DOMAIN AttemptBefore(i) : nmAfter[i][k] = AttemptBefore(i)[k]
        /\ nmSame = 0

(***************************************************************************)
(* Consistency of the features EnvironmentNormalizer returns (SpecScore)   *)
(***************************************************************************)

\* _calculate_content_score on the returned title and description lengths,
\* word count and H1 count; arguments are in halves
ContentScoreOfReturned(f) ==
    Min((IF 60 <= f.title_length /\ f.title_length <= 120 THEN 10
         ELSE IF f.title_length > 0 THEN 5 ELSE 0)
        + (IF 240 <= f.meta_description_length /\ f.meta_description_length <= 320 THEN 10
           ELSE IF f.meta_description_length > 0 THEN 5 ELSE 0)
        + (IF f.word_count >= 600 THEN 10 ELSE IF f.word_count >= 200 THEN 7
           ELSE IF f.word_count > 0 THEN 3 ELSE 0)
        + (IF f.h1_count = 2 THEN 5 ELSE IF f.h1_count > 2 THEN 2 ELSE 0), 35)

\* _calculate_technical_score on the returned flags, H1 count and alt ratio;
\* numeric arguments are in halves
TechnicalScoreOfReturned(f) ==
    Min((IF f.has_ssl THEN 15 ELSE 0)
        + (IF f.has_viewport THEN 10 ELSE 0)
        + (IF f.h1_count = 2 THEN 10 ELSE IF f.h1_count > 0 THEN 5 ELSE 0)
        + (IF f.alt_ratio >= 1600 THEN 5 ELSE IF f.alt_ratio >= 1000 THEN 3
           ELSE IF f.alt_ratio > 0 THEN 1 ELSE 0), 40)

\* C27: the features EnvironmentNormalizer.normalized_crawl returns are
\* consistent for any 1 to 3 successful attempts, also when the attempts
\* saw different pages: title_present iff title_length > 0,
\* meta_description_present iff meta_description_length > 0, and the content
\* and technical quality scores are the scoring functions of the returned
\* features.
C27_ConsistentFeatures ==
    (fsOut.scored /\ fsOut.kind = "normalized") =>
        LET f == fsOut.features
        IN  /\ f.title_present <=> f.title_length > 0
            /\ f.meta_description_present <=> f.meta_description_length > 0
            /\ f.content_quality_score = 2 * ContentScoreOfReturned(f)
            /\ f.technical_quality_score = 2 * TechnicalScoreOfReturned(f)

(***************************************************************************)
(* Order of the steps of extract_features (SpecExtract)                    *)
(***************************************************************************)

\* C28: in extract_features each feature depends on the body only, not on
\* the order of the steps: counting the words does not change what later
\* steps see, so inline_css_count is the number of style elements of the
\* body, inline_js_count the number of script elements without src, and
\* structured_data_present is true whenever the body has a JSON-LD script.
C28_OrderIndependent ==
    (feDone /\ feIn.success /\ feIn.has_url) =>
        /\ feOut.inline_css_count = feIn.body.styles
        /\ feOut.inline_js_count = feIn.body.inline_scripts
        /\ feIn.body.jsonld => feOut.structured_data_present

(***************************************************************************)
(* Properties of the sliding-window RateLimiter (SpecLimit)                *)
(***************************************************************************)

\* the calls of client c answered True, by position in rlCalls
GrantedCalls(c) == {k \in 1..Len(rlCalls) : rlCalls[k].client = c /\ rlCalls[k].answer}

\* the timestamps of the calls of client c answered True, in order
RECURSIVE GrantedTimes(_, _)
GrantedTimes(calls, c) ==
    IF calls = <<>> THEN <<>>
    ELSE (IF Head(calls).client = c /\ Head(calls).answer THEN <<Head(calls).time>> ELSE <<>>)
         \o GrantedTimes(Tail(calls), c)

IsSuffix(s, t) == Len(s) <= Len(t) /\ s = SubSeq(t, Len(t) - Len(s) + 1, Len(t))

\* C29: for every client key and every window of window_seconds at most
\* max_requests calls answered True have their timestamp in the window; a
\* call answered False records nothing (the recorded timestamps are those of
\* the latest calls answered True); and the answer to a call depends on the
\* earlier calls of the same client key only.
C29_SlidingWindow ==
    /\ \A c \in RL_Clients : \A start \in (0 - RL_Window)..RL_MaxTime :
          Cardinality({k \in GrantedCalls(c) :
                          start < rlCalls[k].time /\ rlCalls[k].time <= start + RL_Window})
              <= RL_MaxRequests
    /\ \A c \in RL_Clients : IsSuffix(RL_Deque(rlRequests, c), GrantedTimes(rlCalls, c))
    /\ \A k \in 1..Len(rlCalls) :
          rlCalls[k].answer <=>
              Cardinality({j \in GrantedCalls(rlCalls[k].client) :
                              j < k /\ rlCalls[j].time > rlCalls[k].time - RL_Window})
                  < RL_MaxRequests

\* client a was refused at the limit, and client b was let through after it
C29_Witness ==
    /\ Len(rlCalls) = 4
    /\ rlCalls[1] = [client |-> "a", time |-> 0, answer |-> TRUE]
    /\ rlCalls[2] = [client |-> "a", time |-> 1, answer |-> TRUE]
    /\ rlCalls[3] = [client |-> "a", time |-> 2, answer |-> FALSE]
    /\ rlCalls[4].client = "b" /\ rlCalls[4].answer

(***************************************************************************)
(* Properties of the token-bucket RateLimiter (SpecBucket)                 *)
(***************************************************************************)

\* the dict of the buckets of one kind
BucketsOf(bucket_type) ==
    CASE bucket_type = "minute" -> tbMinute
      [] bucket_type = "hour" -> tbHour
      [] bucket_type = "burst" -> tbBurst

\* every bucket holds between 0 tokens and its capacity
TokensWithinCapacity ==
    \A kind \in TB_Kinds : \A c \in DOMAIN BucketsOf(kind) :
        /\ 0 <= BucketsOf(kind)[c].tokens
        /\ BucketsOf(kind)[c].tokens <= TB_Capacity(kind) * TB_Scale

\* the tokens client c has in a bucket at time now, the refill since the
\* last call counted in; a client without a bucket has a full one
TokensBeforeCall(kind, c, now) ==
    IF c \in DOMAIN BucketsOf(kind)
    THEN Min(TB_Capacity(kind) * TB_Scale,
             BucketsOf(kind)[c].tokens
                 + (now - BucketsOf(kind)[c].last_refill) * TB_RefillRate(kind))
    ELSE TB_Capacity(kind) * TB_Scale

\* a step that is a call of is_allowed takes the tokens from all three
\* buckets and records the call, or takes none and records nothing
AllOrNothingStep ==
    tbCalls' = tbCalls + 1 =>
        LET call == tbLast'
            c == call.client
            asked == call.tokens * TB_Scale
            before == TB_History(tbHistory, c)
            after == TB_History(tbHistory', c)
        IN  /\ call.allowed <=>
                   \A kind \in TB_Kinds : TokensBeforeCall(kind, c, call.time) >= asked
            /\ \A kind \in TB_Kinds :
                   /\ c \in DOMAIN BucketsOf(kind)'
                   /\ BucketsOf(kind)'[c].tokens =
                          TokensBeforeCall(kind, c, call.time)
                              - (IF call.allowed THEN asked ELSE 0)
            /\ IF call.allowed
               THEN /\ after # <<>>
                    /\ after[Len(after)] = call.time
                    /\ IsSuffix(SubSeq(after, 1, Len(after) - 1), before)
               ELSE IsSuffix(after, before)

\* C30: a call of is_allowed is answered True exactly when each of the
\* client's three buckets holds the tokens asked for; then the tokens are
\* taken from all three and one entry is appended to the client's request
\* history; otherwise every bucket holds what it held before the call, the
\* refill counted in, and the history gets no entry.  In every reachable
\* state every bucket holds between 0 tokens and its capacity.
C30_AllOrNothing == []TokensWithinCapacity /\ [][AllOrNothingStep]_vars

\* calls were let through and refused by each of the three buckets, and the
\* client refused last, by the hour bucket, holds in the minute bucket the
\* tokens it asked for
C30_Witness ==
    /\ tbSeen = {"allowed", "minute", "hour", "burst"}
    /\ tbLast.minute_allowed /\ ~tbLast.hour_allowed
    /\ tbMinute[tbLast.client].tokens >= tbLast.tokens * TB_Scale
    /\ tbHour[tbLast.client].tokens < tbLast.tokens * TB_Scale
    /\ TB_History(tbHistory, tbLast.client) # <<>>
====
